---------------------------- MODULE Spec2Model ----------------------------
(***************************************************************************)
(* A model of pymicrotools' HCS plate scripts: well-coordinate extraction, *)
(* standard plate geometry enumeration and the CZI -> OME-ZARR HCS         *)
(* conversion pipeline.                                                    *)
(*                                                                         *)
(* Python strings are sequences of code points (ord values), so that       *)
(* str.isalpha / str.isdigit, chr(ord("A") + i), str(i), sorted() on       *)
(* strings and f"{row}/{col}" are computed as Python computes them.        *)
(***************************************************************************)
EXTENDS Integers, Sequences, FiniteSets, TLC

VARIABLES
    \* extract_well_coordinates
    well_counter,   \* dict: well token -> acquisition count
    ex_pc,          \* "idle" | "call" | "done"
    labels,         \* per token, the loop's locals row and col
    row_names,      \* returned list
    col_names,      \* returned list
    well_paths,     \* returned list
    \* define_plate, define_plate_by_well_count
    plate_type,     \* argument of define_plate (a PlateType member name)
    well_count,     \* argument of define_plate_by_well_count
    field_count,    \* argument
    pl_pc,          \* "idle" | "call_by_type" | "call_by_count" | "done" | "raised"
    config,         \* the PlateConfiguration looked up
    plate,          \* the Plate returned
    error,          \* the exception raised
    \* convert_czi_to_hcs_zarr
    czi_filepath,   \* argument
    overwrite,      \* argument
    czi,            \* the well of each scene of the CZI file, in scene order
    fs0,            \* the file system when the call starts
    fs,             \* the file system: path -> [kind, tree]
    cv_pc,          \* position in convert_czi_to_hcs_zarr
    mdata,          \* the metadata read_6darray returned, <<>> before the read
    field_paths,    \* local
    wi,             \* index into well_paths of the well being processed
    fi,             \* index into field_paths of the field being processed
    events,         \* what the call did to the file system and the CZI, in order
    ret,            \* the value returned
    exc,            \* the exception that ended the call
    \* write_omezarr, get_display
    array5d,        \* argument: [ndim, has_axes]
    zarr_path,      \* argument
    metadata,       \* argument: the CziMetadata fields the functions read
    wo_overwrite,   \* argument overwrite of write_omezarr
    channel_index,  \* argument of get_display
    wo_pc,          \* position in write_omezarr or get_display
    wo_fs0,         \* the file system when the call starts
    wo_fs,          \* the file system: path -> [kind, tree]
    wo_events,      \* what the call did to the file system, in order
    wo_ret,         \* the value returned by write_omezarr
    wo_exc,         \* the exception that ended the call
    display,        \* the tuple returned by get_display
    wo_fn,          \* which of the functions was called
    mdata_global,   \* the module global mdata the channel loops read
    \* the script of write_hcs_ngffzarr.py
    sc_pc           \* position in the script

vars == <<well_counter, ex_pc, labels, row_names, col_names, well_paths,
          plate_type, well_count, field_count, pl_pc, config, plate, error,
          czi_filepath, overwrite, czi, fs0, fs, cv_pc, mdata, field_paths,
          wi, fi, events, ret, exc,
          array5d, zarr_path, metadata, wo_overwrite, channel_index, wo_pc,
          wo_fs0, wo_fs, wo_events, wo_ret, wo_exc, display, wo_fn,
          mdata_global, sc_pc>>

woVars == <<array5d, zarr_path, metadata, wo_overwrite, channel_index, wo_pc,
            wo_fs0, wo_fs, wo_events, wo_ret, wo_exc, display, wo_fn,
            mdata_global>>

cvVars == <<czi_filepath, overwrite, czi, fs0, fs, cv_pc, mdata, field_paths,
            wi, fi, events, ret, exc>>

exVars == <<well_counter, ex_pc, labels, row_names, col_names, well_paths>>
plVars == <<plate_type, well_count, field_count, pl_pc, config, plate, error>>

None == "None"

-----------------------------------------------------------------------------
(* Characters and strings *)

\* ord("A")
OrdA == 65

\* ord("/")
OrdSlash == 47

\* the ranges of code points c for which chr(c).isalpha() holds
\* (CPython 3.11, Unicode 14.0)
AlphaRanges ==
    {
      <<65, 90>>, <<97, 122>>, <<170, 170>>, <<181, 181>>, <<186, 186>>,
      <<192, 214>>, <<216, 246>>, <<248, 705>>, <<710, 721>>, <<736, 740>>,
      <<748, 748>>, <<750, 750>>, <<880, 884>>, <<886, 887>>, <<890, 893>>,
      <<895, 895>>, <<902, 902>>, <<904, 906>>, <<908, 908>>, <<910, 929>>,
      <<931, 1013>>, <<1015, 1153>>, <<1162, 1327>>, <<1329, 1366>>, <<1369, 1369>>,
      <<1376, 1416>>, <<1488, 1514>>, <<1519, 1522>>, <<1568, 1610>>, <<1646, 1647>>,
      <<1649, 1747>>, <<1749, 1749>>, <<1765, 1766>>, <<1774, 1775>>, <<1786, 1788>>,
      <<1791, 1791>>, <<1808, 1808>>, <<1810, 1839>>, <<1869, 1957>>, <<1969, 1969>>,
      <<1994, 2026>>, <<2036, 2037>>, <<2042, 2042>>, <<2048, 2069>>, <<2074, 2074>>,
      <<2084, 2084>>, <<2088, 2088>>, <<2112, 2136>>, <<2144, 2154>>, <<2160, 2183>>,
      <<2185, 2190>>, <<2208, 2249>>, <<2308, 2361>>, <<2365, 2365>>, <<2384, 2384>>,
      <<2392, 2401>>, <<2417, 2432>>, <<2437, 2444>>, <<2447, 2448>>, <<2451, 2472>>,
      <<2474, 2480>>, <<2482, 2482>>, <<2486, 2489>>, <<2493, 2493>>, <<2510, 2510>>,
      <<2524, 2525>>, <<2527, 2529>>, <<2544, 2545>>, <<2556, 2556>>, <<2565, 2570>>,
      <<2575, 2576>>, <<2579, 2600>>, <<2602, 2608>>, <<2610, 2611>>, <<2613, 2614>>,
      <<2616, 2617>>, <<2649, 2652>>, <<2654, 2654>>, <<2674, 2676>>, <<2693, 2701>>,
      <<2703, 2705>>, <<2707, 2728>>, <<2730, 2736>>, <<2738, 2739>>, <<2741, 2745>>,
      <<2749, 2749>>, <<2768, 2768>>, <<2784, 2785>>, <<2809, 2809>>, <<2821, 2828>>,
      <<2831, 2832>>, <<2835, 2856>>, <<2858, 2864>>, <<2866, 2867>>, <<2869, 2873>>,
      <<2877, 2877>>, <<2908, 2909>>, <<2911, 2913>>, <<2929, 2929>>, <<2947, 2947>>,
      <<2949, 2954>>, <<2958, 2960>>, <<2962, 2965>>, <<2969, 2970>>, <<2972, 2972>>,
      <<2974, 2975>>, <<2979, 2980>>, <<2984, 2986>>, <<2990, 3001>>, <<3024, 3024>>,
      <<3077, 3084>>, <<3086, 3088>>, <<3090, 3112>>, <<3114, 3129>>, <<3133, 3133>>,
      <<3160, 3162>>, <<3165, 3165>>, <<3168, 3169>>, <<3200, 3200>>, <<3205, 3212>>,
      <<3214, 3216>>, <<3218, 3240>>, <<3242, 3251>>, <<3253, 3257>>, <<3261, 3261>>,
      <<3293, 3294>>, <<3296, 3297>>, <<3313, 3314>>, <<3332, 3340>>, <<3342, 3344>>,
      <<3346, 3386>>, <<3389, 3389>>, <<3406, 3406>>, <<3412, 3414>>, <<3423, 3425>>,
      <<3450, 3455>>, <<3461, 3478>>, <<3482, 3505>>, <<3507, 3515>>, <<3517, 3517>>,
      <<3520, 3526>>, <<3585, 3632>>, <<3634, 3635>>, <<3648, 3654>>, <<3713, 3714>>,
      <<3716, 3716>>, <<3718, 3722>>, <<3724, 3747>>, <<3749, 3749>>, <<3751, 3760>>,
      <<3762, 3763>>, <<3773, 3773>>, <<3776, 3780>>, <<3782, 3782>>, <<3804, 3807>>,
      <<3840, 3840>>, <<3904, 3911>>, <<3913, 3948>>, <<3976, 3980>>, <<4096, 4138>>,
      <<4159, 4159>>, <<4176, 4181>>, <<4186, 4189>>, <<4193, 4193>>, <<4197, 4198>>,
      <<4206, 4208>>, <<4213, 4225>>, <<4238, 4238>>, <<4256, 4293>>, <<4295, 4295>>,
      <<4301, 4301>>, <<4304, 4346>>, <<4348, 4680>>, <<4682, 4685>>, <<4688, 4694>>,
      <<4696, 4696>>, <<4698, 4701>>, <<4704, 4744>>, <<4746, 4749>>, <<4752, 4784>>,
      <<4786, 4789>>, <<4792, 4798>>, <<4800, 4800>>, <<4802, 4805>>, <<4808, 4822>>,
      <<4824, 4880>>, <<4882, 4885>>, <<4888, 4954>>, <<4992, 5007>>, <<5024, 5109>>,
      <<5112, 5117>>, <<5121, 5740>>, <<5743, 5759>>, <<5761, 5786>>, <<5792, 5866>>,
      <<5873, 5880>>, <<5888, 5905>>, <<5919, 5937>>, <<5952, 5969>>, <<5984, 5996>>,
      <<5998, 6000>>, <<6016, 6067>>, <<6103, 6103>>, <<6108, 6108>>, <<6176, 6264>>,
      <<6272, 6276>>, <<6279, 6312>>, <<6314, 6314>>, <<6320, 6389>>, <<6400, 6430>>,
      <<6480, 6509>>, <<6512, 6516>>, <<6528, 6571>>, <<6576, 6601>>, <<6656, 6678>>,
      <<6688, 6740>>, <<6823, 6823>>, <<6917, 6963>>, <<6981, 6988>>, <<7043, 7072>>,
      <<7086, 7087>>, <<7098, 7141>>, <<7168, 7203>>, <<7245, 7247>>, <<7258, 7293>>,
      <<7296, 7304>>, <<7312, 7354>>, <<7357, 7359>>, <<7401, 7404>>, <<7406, 7411>>,
      <<7413, 7414>>, <<7418, 7418>>, <<7424, 7615>>, <<7680, 7957>>, <<7960, 7965>>,
      <<7968, 8005>>, <<8008, 8013>>, <<8016, 8023>>, <<8025, 8025>>, <<8027, 8027>>,
      <<8029, 8029>>, <<8031, 8061>>, <<8064, 8116>>, <<8118, 8124>>, <<8126, 8126>>,
      <<8130, 8132>>, <<8134, 8140>>, <<8144, 8147>>, <<8150, 8155>>, <<8160, 8172>>,
      <<8178, 8180>>, <<8182, 8188>>, <<8305, 8305>>, <<8319, 8319>>, <<8336, 8348>>,
      <<8450, 8450>>, <<8455, 8455>>, <<8458, 8467>>, <<8469, 8469>>, <<8473, 8477>>,
      <<8484, 8484>>, <<8486, 8486>>, <<8488, 8488>>, <<8490, 8493>>, <<8495, 8505>>,
      <<8508, 8511>>, <<8517, 8521>>, <<8526, 8526>>, <<8579, 8580>>, <<11264, 11492>>,
      <<11499, 11502>>, <<11506, 11507>>, <<11520, 11557>>, <<11559, 11559>>, <<11565, 11565>>,
      <<11568, 11623>>, <<11631, 11631>>, <<11648, 11670>>, <<11680, 11686>>, <<11688, 11694>>,
      <<11696, 11702>>, <<11704, 11710>>, <<11712, 11718>>, <<11720, 11726>>, <<11728, 11734>>,
      <<11736, 11742>>, <<11823, 11823>>, <<12293, 12294>>, <<12337, 12341>>, <<12347, 12348>>,
      <<12353, 12438>>, <<12445, 12447>>, <<12449, 12538>>, <<12540, 12543>>, <<12549, 12591>>,
      <<12593, 12686>>, <<12704, 12735>>, <<12784, 12799>>, <<13312, 19903>>, <<19968, 42124>>,
      <<42192, 42237>>, <<42240, 42508>>, <<42512, 42527>>, <<42538, 42539>>, <<42560, 42606>>,
      <<42623, 42653>>, <<42656, 42725>>, <<42775, 42783>>, <<42786, 42888>>, <<42891, 42954>>,
      <<42960, 42961>>, <<42963, 42963>>, <<42965, 42969>>, <<42994, 43009>>, <<43011, 43013>>,
      <<43015, 43018>>, <<43020, 43042>>, <<43072, 43123>>, <<43138, 43187>>, <<43250, 43255>>,
      <<43259, 43259>>, <<43261, 43262>>, <<43274, 43301>>, <<43312, 43334>>, <<43360, 43388>>,
      <<43396, 43442>>, <<43471, 43471>>, <<43488, 43492>>, <<43494, 43503>>, <<43514, 43518>>,
      <<43520, 43560>>, <<43584, 43586>>, <<43588, 43595>>, <<43616, 43638>>, <<43642, 43642>>,
      <<43646, 43695>>, <<43697, 43697>>, <<43701, 43702>>, <<43705, 43709>>, <<43712, 43712>>,
      <<43714, 43714>>, <<43739, 43741>>, <<43744, 43754>>, <<43762, 43764>>, <<43777, 43782>>,
      <<43785, 43790>>, <<43793, 43798>>, <<43808, 43814>>, <<43816, 43822>>, <<43824, 43866>>,
      <<43868, 43881>>, <<43888, 44002>>, <<44032, 55203>>, <<55216, 55238>>, <<55243, 55291>>,
      <<63744, 64109>>, <<64112, 64217>>, <<64256, 64262>>, <<64275, 64279>>, <<64285, 64285>>,
      <<64287, 64296>>, <<64298, 64310>>, <<64312, 64316>>, <<64318, 64318>>, <<64320, 64321>>,
      <<64323, 64324>>, <<64326, 64433>>, <<64467, 64829>>, <<64848, 64911>>, <<64914, 64967>>,
      <<65008, 65019>>, <<65136, 65140>>, <<65142, 65276>>, <<65313, 65338>>, <<65345, 65370>>,
      <<65382, 65470>>, <<65474, 65479>>, <<65482, 65487>>, <<65490, 65495>>, <<65498, 65500>>,
      <<65536, 65547>>, <<65549, 65574>>, <<65576, 65594>>, <<65596, 65597>>, <<65599, 65613>>,
      <<65616, 65629>>, <<65664, 65786>>, <<66176, 66204>>, <<66208, 66256>>, <<66304, 66335>>,
      <<66349, 66368>>, <<66370, 66377>>, <<66384, 66421>>, <<66432, 66461>>, <<66464, 66499>>,
      <<66504, 66511>>, <<66560, 66717>>, <<66736, 66771>>, <<66776, 66811>>, <<66816, 66855>>,
      <<66864, 66915>>, <<66928, 66938>>, <<66940, 66954>>, <<66956, 66962>>, <<66964, 66965>>,
      <<66967, 66977>>, <<66979, 66993>>, <<66995, 67001>>, <<67003, 67004>>, <<67072, 67382>>,
      <<67392, 67413>>, <<67424, 67431>>, <<67456, 67461>>, <<67463, 67504>>, <<67506, 67514>>,
      <<67584, 67589>>, <<67592, 67592>>, <<67594, 67637>>, <<67639, 67640>>, <<67644, 67644>>,
      <<67647, 67669>>, <<67680, 67702>>, <<67712, 67742>>, <<67808, 67826>>, <<67828, 67829>>,
      <<67840, 67861>>, <<67872, 67897>>, <<67968, 68023>>, <<68030, 68031>>, <<68096, 68096>>,
      <<68112, 68115>>, <<68117, 68119>>, <<68121, 68149>>, <<68192, 68220>>, <<68224, 68252>>,
      <<68288, 68295>>, <<68297, 68324>>, <<68352, 68405>>, <<68416, 68437>>, <<68448, 68466>>,
      <<68480, 68497>>, <<68608, 68680>>, <<68736, 68786>>, <<68800, 68850>>, <<68864, 68899>>,
      <<69248, 69289>>, <<69296, 69297>>, <<69376, 69404>>, <<69415, 69415>>, <<69424, 69445>>,
      <<69488, 69505>>, <<69552, 69572>>, <<69600, 69622>>, <<69635, 69687>>, <<69745, 69746>>,
      <<69749, 69749>>, <<69763, 69807>>, <<69840, 69864>>, <<69891, 69926>>, <<69956, 69956>>,
      <<69959, 69959>>, <<69968, 70002>>, <<70006, 70006>>, <<70019, 70066>>, <<70081, 70084>>,
      <<70106, 70106>>, <<70108, 70108>>, <<70144, 70161>>, <<70163, 70187>>, <<70272, 70278>>,
      <<70280, 70280>>, <<70282, 70285>>, <<70287, 70301>>, <<70303, 70312>>, <<70320, 70366>>,
      <<70405, 70412>>, <<70415, 70416>>, <<70419, 70440>>, <<70442, 70448>>, <<70450, 70451>>,
      <<70453, 70457>>, <<70461, 70461>>, <<70480, 70480>>, <<70493, 70497>>, <<70656, 70708>>,
      <<70727, 70730>>, <<70751, 70753>>, <<70784, 70831>>, <<70852, 70853>>, <<70855, 70855>>,
      <<71040, 71086>>, <<71128, 71131>>, <<71168, 71215>>, <<71236, 71236>>, <<71296, 71338>>,
      <<71352, 71352>>, <<71424, 71450>>, <<71488, 71494>>, <<71680, 71723>>, <<71840, 71903>>,
      <<71935, 71942>>, <<71945, 71945>>, <<71948, 71955>>, <<71957, 71958>>, <<71960, 71983>>,
      <<71999, 71999>>, <<72001, 72001>>, <<72096, 72103>>, <<72106, 72144>>, <<72161, 72161>>,
      <<72163, 72163>>, <<72192, 72192>>, <<72203, 72242>>, <<72250, 72250>>, <<72272, 72272>>,
      <<72284, 72329>>, <<72349, 72349>>, <<72368, 72440>>, <<72704, 72712>>, <<72714, 72750>>,
      <<72768, 72768>>, <<72818, 72847>>, <<72960, 72966>>, <<72968, 72969>>, <<72971, 73008>>,
      <<73030, 73030>>, <<73056, 73061>>, <<73063, 73064>>, <<73066, 73097>>, <<73112, 73112>>,
      <<73440, 73458>>, <<73648, 73648>>, <<73728, 74649>>, <<74880, 75075>>, <<77712, 77808>>,
      <<77824, 78894>>, <<82944, 83526>>, <<92160, 92728>>, <<92736, 92766>>, <<92784, 92862>>,
      <<92880, 92909>>, <<92928, 92975>>, <<92992, 92995>>, <<93027, 93047>>, <<93053, 93071>>,
      <<93760, 93823>>, <<93952, 94026>>, <<94032, 94032>>, <<94099, 94111>>, <<94176, 94177>>,
      <<94179, 94179>>, <<94208, 100343>>, <<100352, 101589>>, <<101632, 101640>>, <<110576, 110579>>,
      <<110581, 110587>>, <<110589, 110590>>, <<110592, 110882>>, <<110928, 110930>>, <<110948, 110951>>,
      <<110960, 111355>>, <<113664, 113770>>, <<113776, 113788>>, <<113792, 113800>>, <<113808, 113817>>,
      <<119808, 119892>>, <<119894, 119964>>, <<119966, 119967>>, <<119970, 119970>>, <<119973, 119974>>,
      <<119977, 119980>>, <<119982, 119993>>, <<119995, 119995>>, <<119997, 120003>>, <<120005, 120069>>,
      <<120071, 120074>>, <<120077, 120084>>, <<120086, 120092>>, <<120094, 120121>>, <<120123, 120126>>,
      <<120128, 120132>>, <<120134, 120134>>, <<120138, 120144>>, <<120146, 120485>>, <<120488, 120512>>,
      <<120514, 120538>>, <<120540, 120570>>, <<120572, 120596>>, <<120598, 120628>>, <<120630, 120654>>,
      <<120656, 120686>>, <<120688, 120712>>, <<120714, 120744>>, <<120746, 120770>>, <<120772, 120779>>,
      <<122624, 122654>>, <<123136, 123180>>, <<123191, 123197>>, <<123214, 123214>>, <<123536, 123565>>,
      <<123584, 123627>>, <<124896, 124902>>, <<124904, 124907>>, <<124909, 124910>>, <<124912, 124926>>,
      <<124928, 125124>>, <<125184, 125251>>, <<125259, 125259>>, <<126464, 126467>>, <<126469, 126495>>,
      <<126497, 126498>>, <<126500, 126500>>, <<126503, 126503>>, <<126505, 126514>>, <<126516, 126519>>,
      <<126521, 126521>>, <<126523, 126523>>, <<126530, 126530>>, <<126535, 126535>>, <<126537, 126537>>,
      <<126539, 126539>>, <<126541, 126543>>, <<126545, 126546>>, <<126548, 126548>>, <<126551, 126551>>,
      <<126553, 126553>>, <<126555, 126555>>, <<126557, 126557>>, <<126559, 126559>>, <<126561, 126562>>,
      <<126564, 126564>>, <<126567, 126570>>, <<126572, 126578>>, <<126580, 126583>>, <<126585, 126588>>,
      <<126590, 126590>>, <<126592, 126601>>, <<126603, 126619>>, <<126625, 126627>>, <<126629, 126633>>,
      <<126635, 126651>>, <<131072, 173791>>, <<173824, 177976>>, <<177984, 178205>>, <<178208, 183969>>,
      <<183984, 191456>>, <<194560, 195101>>, <<196608, 201546>> }

\* the ranges of code points c for which chr(c).isdigit() holds
\* (CPython 3.11, Unicode 14.0)
DigitRanges ==
    {
      <<48, 57>>, <<178, 179>>, <<185, 185>>, <<1632, 1641>>, <<1776, 1785>>,
      <<1984, 1993>>, <<2406, 2415>>, <<2534, 2543>>, <<2662, 2671>>, <<2790, 2799>>,
      <<2918, 2927>>, <<3046, 3055>>, <<3174, 3183>>, <<3302, 3311>>, <<3430, 3439>>,
      <<3558, 3567>>, <<3664, 3673>>, <<3792, 3801>>, <<3872, 3881>>, <<4160, 4169>>,
      <<4240, 4249>>, <<4969, 4977>>, <<6112, 6121>>, <<6160, 6169>>, <<6470, 6479>>,
      <<6608, 6618>>, <<6784, 6793>>, <<6800, 6809>>, <<6992, 7001>>, <<7088, 7097>>,
      <<7232, 7241>>, <<7248, 7257>>, <<8304, 8304>>, <<8308, 8313>>, <<8320, 8329>>,
      <<9312, 9320>>, <<9332, 9340>>, <<9352, 9360>>, <<9450, 9450>>, <<9461, 9469>>,
      <<9471, 9471>>, <<10102, 10110>>, <<10112, 10120>>, <<10122, 10130>>, <<42528, 42537>>,
      <<43216, 43225>>, <<43264, 43273>>, <<43472, 43481>>, <<43504, 43513>>, <<43600, 43609>>,
      <<44016, 44025>>, <<65296, 65305>>, <<66720, 66729>>, <<68160, 68163>>, <<68912, 68921>>,
      <<69216, 69224>>, <<69714, 69722>>, <<69734, 69743>>, <<69872, 69881>>, <<69942, 69951>>,
      <<70096, 70105>>, <<70384, 70393>>, <<70736, 70745>>, <<70864, 70873>>, <<71248, 71257>>,
      <<71360, 71369>>, <<71472, 71481>>, <<71904, 71913>>, <<72016, 72025>>, <<72784, 72793>>,
      <<73040, 73049>>, <<73120, 73129>>, <<92768, 92777>>, <<92864, 92873>>, <<93008, 93017>>,
      <<120782, 120831>>, <<123200, 123209>>, <<123632, 123641>>, <<125264, 125273>>, <<127232, 127242>>,
      <<130032, 130041>> }

\* str.isalpha on one character
IsAlpha(c) ==
    IF c < 128 THEN c \in 65..90 \/ c \in 97..122
    ELSE \E r \in AlphaRanges : r[1] <= c /\ c <= r[2]

\* str.isdigit on one character
IsDigit(c) ==
    IF c < 128 THEN c \in 48..57
    ELSE \E r \in DigitRanges : r[1] <= c /\ c <= r[2]

\* Python's < on str: lexicographic by code point, a proper prefix is smaller
RECURSIVE StrLess(_, _)
StrLess(a, b) ==
    IF b = <<>> THEN FALSE
    ELSE IF a = <<>> THEN TRUE
    ELSE IF a[1] # b[1] THEN a[1] < b[1]
    ELSE StrLess(Tail(a), Tail(b))

\* sorted(list(S)) for a set S of strings
RECURSIVE Sorted(_)
Sorted(S) ==
    IF S = {} THEN <<>>
    ELSE LET m == CHOOSE x \in S : \A y \in S : y = x \/ StrLess(x, y)
         IN  <<m>> \o Sorted(S \ {m})

\* f"{row}/{col}"
WellPath(row, col) == row \o <<OrdSlash>> \o col

Elems(s) == {s[i] : i \in 1..Len(s)}

-----------------------------------------------------------------------------
(* extract_well_coordinates *)

\* a variant that keeps only the leading letters (as a regex ^[A-Za-z]* would)
RECURSIVE WellRowLeading(_)
WellRowLeading(well) ==
    IF well = <<>> \/ ~IsAlpha(well[1]) THEN <<>>
    ELSE <<well[1]>> \o WellRowLeading(Tail(well))

\* row = "".join(filter(str.isalpha, well))
WellRow(well) == SelectSeq(well, IsAlpha)

\* a variant that keeps only the first digit of the token
WellColFirstDigit(well) ==
    LET digits == SelectSeq(well, IsDigit)
    IN  IF digits = <<>> THEN <<>> ELSE <<digits[1]>>

\* col = "".join(filter(str.isdigit, well))
WellCol(well) == SelectSeq(well, IsDigit)

\* a variant that takes the first character as the row
RowSetFirstChar(wc) ==
    {IF w = <<>> THEN <<>> ELSE <<w[1]>> : w \in DOMAIN wc}

\* the for loop: rows and cols collected as sets
RowSet(wc) == {WellRow(w) : w \in DOMAIN wc}
ColSet(wc) == {WellCol(w) : w \in DOMAIN wc}

\* a variant that drops empty labels
RowNamesNonEmpty(wc) == Sorted(RowSet(wc) \ {<<>>})

\* row_names = sorted(list(rows))
RowNames(wc) == Sorted(RowSet(wc))

\* a variant that orders the column labels by length first, as numbers order
RECURSIVE SortedShortLex(_)
SortedShortLex(S) ==
    IF S = {} THEN <<>>
    ELSE LET m == CHOOSE x \in S : \A y \in S :
                    \/ y = x
                    \/ Len(x) < Len(y)
                    \/ (Len(x) = Len(y) /\ StrLess(x, y))
         IN  <<m>> \o SortedShortLex(S \ {m})
ColNamesNumeric(wc) == SortedShortLex(ColSet(wc))

\* col_names = sorted(list(cols))
ColNames(wc) == Sorted(ColSet(wc))

\* a variant that enumerates column by column
WellPathsColumnMajor(rn, cn) ==
    [k \in 1..(Len(rn) * Len(cn)) |->
        WellPath(rn[((k - 1) % Len(rn)) + 1], cn[((k - 1) \div Len(rn)) + 1])]

\* [f"{row}/{col}" for row in row_names for col in col_names]
WellPaths(rn, cn) ==
    [k \in 1..(Len(rn) * Len(cn)) |->
        WellPath(rn[((k - 1) \div Len(cn)) + 1], cn[((k - 1) % Len(cn)) + 1])]

extract_well_coordinates ==
    /\ ex_pc = "call"
    /\ labels' = [w \in DOMAIN well_counter |->
                    [row |-> WellRow(w), col |-> WellCol(w)]]
    /\ row_names' = RowNames(well_counter)
    /\ col_names' = ColNames(well_counter)
    /\ well_paths' = WellPaths(RowNames(well_counter), ColNames(well_counter))
    /\ ex_pc' = "done"
    /\ UNCHANGED <<well_counter>>
    /\ UNCHANGED plVars
    /\ UNCHANGED cvVars
    /\ UNCHANGED <<woVars, sc_pc>>

-----------------------------------------------------------------------------
(* Standard plate geometries *)

\* str(i) for an int: decimal digits, most significant first
RECURSIVE Str(_)
Str(i) ==
    IF i < 0 THEN <<45>> \o Str(0 - i)
    ELSE IF i < 10 THEN <<48 + i>>
    ELSE Str(i \div 10) \o <<48 + (i % 10)>>

\* ", ".join(items)
RECURSIVE JoinCommaSpace(_)
JoinCommaSpace(items) ==
    IF items = <<>> THEN <<>>
    ELSE IF Len(items) = 1 THEN items[1]
    ELSE items[1] \o <<44, 32>> \o JoinCommaSpace(Tail(items))

\* str(list of int): "[6, 24, ...]"
ReprIntList(xs) ==
    <<91>> \o JoinCommaSpace([i \in 1..Len(xs) |-> Str(xs[i])]) \o <<93>>

\* the dataclass PlateConfiguration(rows, columns, name)
PlateConfiguration(r, c, n) == [rows |-> r, columns |-> c, name |-> n]

total_wells(cfg) == cfg.rows * cfg.columns

\* [chr(ord("A") + i) for i in range(self.rows)]
row_labels(cfg) == [i \in 1..cfg.rows |-> <<OrdA + (i - 1)>>]

\* a variant with range(1, self.columns)
column_labels_short(cfg) == [i \in 1..(cfg.columns - 1) |-> Str(i)]

\* [str(i) for i in range(1, self.columns + 1)]
column_labels(cfg) == [i \in 1..cfg.columns |-> Str(i)]

\* the members of the Enum PlateType, by name
PlateTypeNames ==
    {"PLATE_6", "PLATE_24", "PLATE_48", "PLATE_96", "PLATE_384", "PLATE_1536"}

PlateType(member) ==
    CASE member = "PLATE_6"    -> PlateConfiguration(2, 3, "6-Well Plate")
      [] member = "PLATE_24"   -> PlateConfiguration(4, 6, "24-Well Plate")
      [] member = "PLATE_48"   -> PlateConfiguration(6, 8, "48-Well Plate")
      [] member = "PLATE_96"   -> PlateConfiguration(8, 12, "96-Well Plate")
      [] member = "PLATE_384"  -> PlateConfiguration(16, 24, "384-Well Plate")
      [] member = "PLATE_1536" -> PlateConfiguration(32, 48, "1536-Well Plate")

\* a variant whose entry for 48 points at the 96-well configuration
PLATE_FORMATS_Mismatched ==
    << [key |-> 6,    value |-> PlateType("PLATE_6")],
       [key |-> 24,   value |-> PlateType("PLATE_24")],
       [key |-> 48,   value |-> PlateType("PLATE_96")],
       [key |-> 96,   value |-> PlateType("PLATE_96")],
       [key |-> 384,  value |-> PlateType("PLATE_384")],
       [key |-> 1536, value |-> PlateType("PLATE_1536")] >>

\* the dict PLATE_FORMATS, in insertion order
PLATE_FORMATS ==
    << [key |-> 6,    value |-> PlateType("PLATE_6")],
       [key |-> 24,   value |-> PlateType("PLATE_24")],
       [key |-> 48,   value |-> PlateType("PLATE_48")],
       [key |-> 96,   value |-> PlateType("PLATE_96")],
       [key |-> 384,  value |-> PlateType("PLATE_384")],
       [key |-> 1536, value |-> PlateType("PLATE_1536")] >>

\* list(d.keys()), k in d, d[k]
DictKeys(d) == [i \in 1..Len(d) |-> d[i].key]
DictHas(d, k) == \E i \in 1..Len(d) : d[i].key = k
DictGet(d, k) == d[CHOOSE i \in 1..Len(d) : d[i].key = k].value

\* a variant of the message that leaves out the available formats
UnsupportedMessageShort(n, available) ==
    <<85, 110, 115, 117, 112, 112, 111, 114, 116, 101, 100, 32, 119, 101, 108, 108, 32, 99, 111, 117, 110, 116, 58, 32>> \o Str(n)

\* f"Unsupported well count: {well_count}. Available formats: {available}"
UnsupportedMessage(n, available) ==
    <<85, 110, 115, 117, 112, 112, 111, 114, 116, 101, 100, 32, 119, 101, 108, 108, 32, 99, 111, 117, 110, 116, 58, 32>> \o Str(n)
    \o <<46, 32, 65, 118, 97, 105, 108, 97, 98, 108, 101, 32, 102, 111, 114, 109, 97, 116, 115, 58, 32>>
    \o ReprIntList(available)

\* a variant that counts rows and columns from 1
MakePlateOneBased(cfg, fc) ==
    LET columns == [j \in 1..Len(column_labels(cfg)) |-> [name |-> column_labels(cfg)[j]]]
        rows    == [i \in 1..Len(row_labels(cfg)) |-> [name |-> row_labels(cfg)[i]]]
        nc      == Len(columns)
        wells   == [k \in 1..(Len(rows) * nc) |->
                      LET row_idx == (k - 1) \div nc
                          col_idx == (k - 1) % nc
                      IN  [path |-> WellPath(rows[row_idx + 1].name, columns[col_idx + 1].name),
                           rowIndex |-> row_idx + 1,
                           columnIndex |-> col_idx + 1]]
    IN  [name |-> cfg.name, columns |-> columns, rows |-> rows, wells |-> wells,
         field_count |-> fc]

\* columns, rows and wells of a plate, and the Plate built from them
MakePlate(cfg, fc) ==
    LET columns == [j \in 1..Len(column_labels(cfg)) |-> [name |-> column_labels(cfg)[j]]]
        rows    == [i \in 1..Len(row_labels(cfg)) |-> [name |-> row_labels(cfg)[i]]]
        nc      == Len(columns)
        wells   == [k \in 1..(Len(rows) * nc) |->
                      LET row_idx == (k - 1) \div nc
                          col_idx == (k - 1) % nc
                      IN  [path |-> WellPath(rows[row_idx + 1].name, columns[col_idx + 1].name),
                           rowIndex |-> row_idx,
                           columnIndex |-> col_idx]]
    IN  [name |-> cfg.name, columns |-> columns, rows |-> rows, wells |-> wells,
         field_count |-> fc]

define_plate ==
    /\ pl_pc = "call_by_type"
    /\ config' = PlateType(plate_type)
    /\ plate' = MakePlate(PlateType(plate_type), field_count)
    /\ pl_pc' = "done"
    /\ UNCHANGED <<plate_type, well_count, field_count, error>>
    /\ UNCHANGED exVars
    /\ UNCHANGED cvVars
    /\ UNCHANGED <<woVars, sc_pc>>

define_plate_by_well_count ==
    /\ pl_pc = "call_by_count"
    /\ IF ~DictHas(PLATE_FORMATS, well_count)
       THEN /\ error' = [type |-> "ValueError",
                         message |-> UnsupportedMessage(well_count, DictKeys(PLATE_FORMATS))]
            /\ pl_pc' = "raised"
            /\ UNCHANGED <<config, plate>>
       ELSE /\ config' = DictGet(PLATE_FORMATS, well_count)
            /\ plate' = MakePlate(DictGet(PLATE_FORMATS, well_count), field_count)
            /\ pl_pc' = "done"
            /\ UNCHANGED error
    /\ UNCHANGED <<plate_type, well_count, field_count>>
    /\ UNCHANGED exVars
    /\ UNCHANGED cvVars
    /\ UNCHANGED <<woVars, sc_pc>>

-----------------------------------------------------------------------------
(* Paths, the file system and the CZI metadata *)

\* s.split(sep) for a one-character separator
RECURSIVE SplitOn(_, _)
SplitOn(s, sep) ==
    IF \A i \in 1..Len(s) : s[i] # sep THEN <<s>>
    ELSE LET i == CHOOSE k \in 1..Len(s) :
                    s[k] = sep /\ \A j \in 1..(k - 1) : s[j] # sep
         IN  <<SubSeq(s, 1, i - 1)>> \o SplitOn(SubSeq(s, i + 1, Len(s)), sep)

\* sep.join(parts)
RECURSIVE JoinWith(_, _)
JoinWith(parts, sep) ==
    IF parts = <<>> THEN <<>>
    ELSE IF Len(parts) = 1 THEN parts[1]
    ELSE parts[1] \o sep \o JoinWith(Tail(parts), sep)

NotSlash(c) == c # OrdSlash

IsPathPart(part) == part # <<>> /\ part # <<46>>

\* the root of a POSIX path: exactly two leading slashes are kept as "//",
\* one or more than two give "/"
RootOf(s) ==
    IF s = <<>> \/ s[1] # OrdSlash THEN <<>>
    ELSE IF Len(s) >= 2 /\ s[2] = OrdSlash /\ (Len(s) = 2 \/ s[3] # OrdSlash)
    THEN <<OrdSlash, OrdSlash>>
    ELSE <<OrdSlash>>

\* str(Path(s)): empty and "." components dropped, the root kept
PathStr(s) ==
    LET parts == SelectSeq(SplitOn(s, OrdSlash), IsPathPart)
        root  == RootOf(s)
    IN  IF parts = <<>> /\ root = <<>> THEN <<46>>
        ELSE root \o JoinWith(parts, <<OrdSlash>>)

\* "_ngff_plate.zarr"
ZarrSuffix == <<95, 110, 103, 102, 102, 95, 112, 108, 97, 116, 101, 46, 122, 97, 114, 114>>

\* Path(czi_filepath[:-4] + "_ngff_plate.zarr")
OutputPath(filepath) ==
    PathStr(SubSeq(filepath, 1, Len(filepath) - 4) \o ZarrSuffix)

\* a zarr store freshly created, and one left by an earlier run
EmptyTree == [legacy |-> FALSE, groups |-> {}, plate |-> <<>>,
              wells |-> <<>>, images |-> <<>>]
OldTree   == [legacy |-> TRUE, groups |-> {}, plate |-> <<>>,
              wells |-> <<>>, images |-> <<>>]

Exists(f, path) == path \in DOMAIN f

\* shutil.rmtree(path) on a directory
RmTree(f, path) == [q \in (DOMAIN f) \ {path} |-> f[q]]

\* the tree of the store at path, created when there is none
OpenStore(f, path) == IF Exists(f, path) THEN f[path].tree ELSE EmptyTree

PutTree(f, path, tree) ==
    [q \in (DOMAIN f) \cup {path} |->
        IF q = path THEN [kind |-> "dir", tree |-> tree] ELSE f[q]]

\* d[k] = v
DictPut(d, k, v) == [q \in (DOMAIN d) \cup {k} |-> IF q = k THEN v ELSE d[q]]

\* [i for i, x in enumerate(names) if x == well_id], from position i on
RECURSIVE ScenesFrom(_, _, _)
ScenesFrom(names, well_id, i) ==
    IF i > Len(names) THEN <<>>
    ELSE (IF names[i] = well_id THEN <<i - 1>> ELSE <<>>)
         \o ScenesFrom(names, well_id, i + 1)

\* get_scenes_for_well(sample, well_id) of write_hcs_omezarr.py, for a sample
\* that has the attributes of a CziSampleInfo: the scenes are looked up in
\* well_array_names when multipos_per_well is set and in well_position_names
\* otherwise. No script calls the function.
get_scenes_for_well(sample, well_id) ==
    IF sample.multipos_per_well
    THEN ScenesFrom(sample.well_array_names, well_id, 1)
    ELSE ScenesFrom(sample.well_position_names, well_id, 1)

\* mdata.sample of a CZI whose scenes lie in the wells `names`:
\* well_scene_indices maps each well to the scenes acquired in it
SampleOf(names) ==
    [well_array_names   |-> names,
     well_counter       |-> [w \in Elems(names) |->
                                Cardinality({i \in 1..Len(names) : names[i] = w})],
     well_scene_indices |-> [w \in Elems(names) |-> ScenesFrom(names, w, 1)]]

Event(op, group, scene) == [op |-> op, group |-> group, scene |-> scene]

-----------------------------------------------------------------------------
(* convert_czi_to_hcs_zarr *)

zarr_output_path == OutputPath(czi_filepath)

\* a variant that removes the existing store whatever overwrite says
cv_check_existing_always_remove ==
    /\ cv_pc = "start"
    /\ IF Exists(fs, zarr_output_path)
       THEN IF fs[zarr_output_path].kind = "dir"
            THEN /\ fs' = RmTree(fs, zarr_output_path)
                 /\ events' = Append(events, Event("rmtree", <<>>, 0 - 1))
                 /\ cv_pc' = "read"
                 /\ UNCHANGED <<ret, exc>>
            ELSE /\ exc' = "NotADirectoryError"
                 /\ cv_pc' = "raised"
                 /\ UNCHANGED <<fs, events, ret>>
       ELSE /\ cv_pc' = "read"
            /\ UNCHANGED <<fs, events, ret, exc>>
    /\ UNCHANGED <<czi_filepath, overwrite, czi, fs0, mdata, field_paths, wi, fi>>
    /\ UNCHANGED exVars
    /\ UNCHANGED plVars
    /\ UNCHANGED <<woVars, sc_pc>>

\* lines 32-40: the output path and the existing store
cv_check_existing ==
    /\ cv_pc = "start"
    /\ IF Exists(fs, zarr_output_path)
       THEN IF overwrite
            THEN IF fs[zarr_output_path].kind = "dir"
                 THEN /\ fs' = RmTree(fs, zarr_output_path)
                      /\ events' = Append(events, Event("rmtree", <<>>, 0 - 1))
                      /\ cv_pc' = "read"
                      /\ UNCHANGED <<ret, exc>>
                 ELSE /\ exc' = "NotADirectoryError"
                      /\ cv_pc' = "raised"
                      /\ UNCHANGED <<fs, events, ret>>
            ELSE /\ ret' = zarr_output_path
                 /\ cv_pc' = "done"
                 /\ UNCHANGED <<fs, events, exc>>
       ELSE /\ cv_pc' = "read"
            /\ UNCHANGED <<fs, events, ret, exc>>
    /\ UNCHANGED <<czi_filepath, overwrite, czi, fs0, mdata, field_paths, wi, fi>>
    /\ UNCHANGED exVars
    /\ UNCHANGED plVars
    /\ UNCHANGED <<woVars, sc_pc>>

\* line 43: array6d, mdata = read_tools.read_6darray(czi_filepath)
cv_read ==
    /\ cv_pc = "read"
    /\ mdata' = <<SampleOf(czi)>>
    /\ events' = Append(events, Event("read", <<>>, 0 - 1))
    /\ cv_pc' = "layout"
    /\ UNCHANGED <<czi_filepath, overwrite, czi, fs0, fs, field_paths, wi, fi, ret, exc>>
    /\ UNCHANGED exVars
    /\ UNCHANGED plVars
    /\ UNCHANGED <<woVars, sc_pc>>

\* line 46: the call of extract_well_coordinates(mdata.sample.well_counter)
cv_layout ==
    /\ cv_pc = "layout"
    /\ well_counter' = mdata[1].well_counter
    /\ ex_pc' = "call"
    /\ cv_pc' = "extract"
    /\ UNCHANGED <<labels, row_names, col_names, well_paths>>
    /\ UNCHANGED <<czi_filepath, overwrite, czi, fs0, fs, mdata, field_paths, wi, fi,
                   events, ret, exc>>
    /\ UNCHANGED plVars
    /\ UNCHANGED <<woVars, sc_pc>>

\* line 47: field_paths from the count of the first scene's well
cv_field_paths ==
    /\ cv_pc = "extract"
    /\ ex_pc = "done"
    /\ IF mdata[1].well_array_names = <<>>
       THEN /\ exc' = "IndexError"
            /\ cv_pc' = "raised"
            /\ UNCHANGED field_paths
       ELSE /\ field_paths' =
                 [i \in 1..mdata[1].well_counter[mdata[1].well_array_names[1]] |->
                     Str(i - 1)]
            /\ cv_pc' = "plate"
            /\ UNCHANGED exc
    /\ UNCHANGED <<czi_filepath, overwrite, czi, fs0, fs, mdata, wi, fi, events, ret>>
    /\ UNCHANGED exVars
    /\ UNCHANGED plVars
    /\ UNCHANGED <<woVars, sc_pc>>

\* lines 50-52: the store is opened and the plate metadata written
cv_write_plate ==
    /\ cv_pc = "plate"
    /\ fs' = PutTree(fs, zarr_output_path,
                 [OpenStore(fs, zarr_output_path) EXCEPT
                     !.plate = <<[rows |-> row_names, columns |-> col_names,
                                  wells |-> well_paths]>>])
    /\ events' = Append(events, Event("plate", <<>>, 0 - 1))
    /\ wi' = 1
    /\ cv_pc' = "well"
    /\ UNCHANGED <<czi_filepath, overwrite, czi, fs0, mdata, field_paths, fi, ret, exc>>
    /\ UNCHANGED exVars
    /\ UNCHANGED plVars
    /\ UNCHANGED <<woVars, sc_pc>>

\* a variant that walks well_paths from its last entry to its first
cv_well_reversed ==
    /\ cv_pc = "well"
    /\ wi <= Len(well_paths)
    /\ LET wp    == well_paths[Len(well_paths) + 1 - wi]
           parts == SplitOn(wp, OrdSlash)
           tree  == fs[zarr_output_path].tree
       IN  IF Len(parts) # 2
           THEN /\ exc' = "ValueError"
                /\ cv_pc' = "raised"
                /\ UNCHANGED <<fs, events, fi>>
           ELSE /\ fs' = PutTree(fs, zarr_output_path,
                            [tree EXCEPT
                                !.groups = @ \cup {parts[1], WellPath(parts[1], parts[2])},
                                !.wells = DictPut(@, wp, field_paths)])
                /\ events' = Append(events, Event("well", wp, 0 - 1))
                /\ fi' = 0
                /\ cv_pc' = "field"
                /\ UNCHANGED exc
    /\ UNCHANGED <<czi_filepath, overwrite, czi, fs0, mdata, field_paths, wi, ret>>
    /\ UNCHANGED exVars
    /\ UNCHANGED plVars
    /\ UNCHANGED <<woVars, sc_pc>>

\* lines 55-58: the next well's groups and well metadata
cv_well ==
    /\ cv_pc = "well"
    /\ wi <= Len(well_paths)
    /\ LET wp    == well_paths[wi]
           parts == SplitOn(wp, OrdSlash)
           tree  == fs[zarr_output_path].tree
       IN  IF Len(parts) # 2
           THEN /\ exc' = "ValueError"
                /\ cv_pc' = "raised"
                /\ UNCHANGED <<fs, events, fi>>
           ELSE /\ fs' = PutTree(fs, zarr_output_path,
                            [tree EXCEPT
                                !.groups = @ \cup {parts[1], WellPath(parts[1], parts[2])},
                                !.wells = DictPut(@, wp, field_paths)])
                /\ events' = Append(events, Event("well", wp, 0 - 1))
                /\ fi' = 0
                /\ cv_pc' = "field"
                /\ UNCHANGED exc
    /\ UNCHANGED <<czi_filepath, overwrite, czi, fs0, mdata, field_paths, wi, ret>>
    /\ UNCHANGED exVars
    /\ UNCHANGED plVars
    /\ UNCHANGED <<woVars, sc_pc>>

\* lines 60-70: the next field's image group, scene lookup and image
cv_field ==
    /\ cv_pc = "field"
    /\ fi < Len(field_paths)
    /\ LET wp      == well_paths[wi]
           well_id == SelectSeq(wp, NotSlash)
           group   == WellPath(wp, field_paths[fi + 1])
           tree    == fs[zarr_output_path].tree
           made    == [tree EXCEPT !.groups = @ \cup {group}]
           scenes  == mdata[1].well_scene_indices
       IN  IF well_id \notin DOMAIN scenes
           THEN /\ exc' = "KeyError"
                /\ cv_pc' = "raised"
                /\ fs' = PutTree(fs, zarr_output_path, made)
                /\ UNCHANGED <<events, fi>>
           ELSE IF fi >= Len(scenes[well_id])
           THEN /\ exc' = "IndexError"
                /\ cv_pc' = "raised"
                /\ fs' = PutTree(fs, zarr_output_path, made)
                /\ UNCHANGED <<events, fi>>
           ELSE /\ fs' = PutTree(fs, zarr_output_path,
                            [made EXCEPT
                                !.images = DictPut(@, group, scenes[well_id][fi + 1])])
                /\ events' = Append(events, Event("image", group, scenes[well_id][fi + 1]))
                /\ fi' = fi + 1
                /\ UNCHANGED <<cv_pc, exc>>
    /\ UNCHANGED <<czi_filepath, overwrite, czi, fs0, mdata, field_paths, wi, ret>>
    /\ UNCHANGED exVars
    /\ UNCHANGED plVars
    /\ UNCHANGED <<woVars, sc_pc>>

\* the inner loop ends: on to the next well
cv_next_well ==
    /\ cv_pc = "field"
    /\ fi >= Len(field_paths)
    /\ wi' = wi + 1
    /\ cv_pc' = "well"
    /\ UNCHANGED <<czi_filepath, overwrite, czi, fs0, fs, mdata, field_paths, fi,
                   events, ret, exc>>
    /\ UNCHANGED exVars
    /\ UNCHANGED plVars
    /\ UNCHANGED <<woVars, sc_pc>>

\* line 71: return str(zarr_output_path)
cv_return ==
    /\ cv_pc = "well"
    /\ wi > Len(well_paths)
    /\ ret' = zarr_output_path
    /\ cv_pc' = "done"
    /\ UNCHANGED <<czi_filepath, overwrite, czi, fs0, fs, mdata, field_paths, wi, fi,
                   events, exc>>
    /\ UNCHANGED exVars
    /\ UNCHANGED plVars
    /\ UNCHANGED <<woVars, sc_pc>>

-----------------------------------------------------------------------------
(* get_display and the three OME-ZARR writers *)

\* np.round(n / d, 0) for n >= 0, d > 0: the nearest integer, a tie going to
\* the even neighbour
RoundHalfEven(n, d) ==
    LET q == n \div d
        r == n % d
    IN  IF 2 * r < d THEN q
        ELSE IF 2 * r > d THEN q + 1
        ELSE IF q % 2 = 0 THEN q ELSE q + 1

\* the tuple get_display returns, or the exception that leaves it
Returned(lower, higher, maxvalue) ==
    [raised |-> None, lower |-> lower, higher |-> higher, maxvalue |-> maxvalue]
Raised(e) == [raised |-> e, lower |-> 0, higher |-> 0, maxvalue |-> 0]

\* get_display(metadata, channel_index), lines 15-36: the try block indexes
\* channelinfo.clims and maxvalue_list; its IndexError handler indexes the
\* attribute maxvalue
get_display(md, ci) ==
    IF ci < Len(md.clims) /\ ci < Len(md.maxvalue_list)
    THEN Returned(RoundHalfEven(md.clims[ci + 1][1].num * md.maxvalue_list[ci + 1],
                                md.clims[ci + 1][1].den),
                  RoundHalfEven(md.clims[ci + 1][2].num * md.maxvalue_list[ci + 1],
                                md.clims[ci + 1][2].den),
                  md.maxvalue_list[ci + 1])
    ELSE IF ~md.has_maxvalue THEN Raised("AttributeError")
    ELSE IF ci >= Len(md.maxvalue) THEN Raised("IndexError")
    ELSE Returned(0, md.maxvalue[ci + 1], md.maxvalue[ci + 1])

\* a call of get_display on its own
call_get_display ==
    /\ wo_fn = "get_display"
    /\ wo_pc = "start"
    /\ LET r == get_display(metadata, channel_index)
       IN  IF r.raised = None
           THEN /\ display' = <<r.lower, r.higher, r.maxvalue>>
                /\ wo_pc' = "done"
                /\ UNCHANGED wo_exc
           ELSE /\ wo_exc' = r.raised
                /\ wo_pc' = "raised"
                /\ UNCHANGED display
    /\ UNCHANGED <<array5d, zarr_path, metadata, wo_overwrite, channel_index, wo_fn, mdata_global,
                   wo_fs0, wo_fs, wo_events, wo_ret>>
    /\ UNCHANGED <<exVars, plVars, cvVars, sc_pc>>

\* an OME-ZARR image store freshly created, and one left by an earlier run
EmptyImageTree == [legacy |-> FALSE, image |-> FALSE, omero |-> <<>>]
OldImageTree   == [legacy |-> TRUE, image |-> TRUE, omero |-> <<>>]

\* the store at path holds tree
PutImageTree(f, path, tree) ==
    [q \in (DOMAIN f) \cup {path} |->
        IF q = path THEN [kind |-> "dir", tree |-> tree] ELSE f[q]]

\* what a writer returns: None, the zarr_path it was given, or the NgffImage
\* it built
NotReturned    == [returned |-> FALSE, none |-> FALSE, path |-> <<>>, image |-> <<>>]
ReturnNone     == [returned |-> TRUE, none |-> TRUE, path |-> <<>>, image |-> <<>>]
ReturnPath(zp) == [returned |-> TRUE, none |-> FALSE, path |-> zp, image |-> <<>>]
ReturnImage(n) == [returned |-> TRUE, none |-> FALSE, path |-> <<>>, image |-> <<n>>]

\* a variant that looks at the target path before it looks at the dimensions
wo_check_path_first ==
    /\ wo_fn = "write_omezarr_adv"
    /\ wo_pc = "start"
    /\ LET target == PathStr(zarr_path)
       IN  IF Exists(wo_fs, target) /\ wo_overwrite
           THEN IF wo_fs[target].kind = "dir"
                THEN /\ wo_fs' = RmTree(wo_fs, target)
                     /\ wo_events' = Append(wo_events, "rmtree")
                     /\ IF array5d.ndim > 5
                        THEN wo_ret' = ReturnNone /\ wo_pc' = "done"
                        ELSE wo_pc' = "store" /\ UNCHANGED wo_ret
                     /\ UNCHANGED wo_exc
                ELSE /\ wo_exc' = "NotADirectoryError"
                     /\ wo_pc' = "raised"
                     /\ UNCHANGED <<wo_fs, wo_events, wo_ret>>
           ELSE IF Exists(wo_fs, target) \/ array5d.ndim > 5
           THEN /\ wo_ret' = ReturnNone
                /\ wo_pc' = "done"
                /\ UNCHANGED <<wo_fs, wo_events, wo_exc>>
           ELSE /\ wo_pc' = "store"
                /\ UNCHANGED <<wo_fs, wo_events, wo_ret, wo_exc>>
    /\ UNCHANGED <<array5d, zarr_path, metadata, wo_overwrite, channel_index, wo_fn, mdata_global,
                   wo_fs0, display>>
    /\ UNCHANGED <<exVars, plVars, cvVars, sc_pc>>

\* write_omezarr of write_omezarr_adv.py, lines 84-93: the dimension check,
\* then the existing target
wo_check ==
    /\ wo_fn = "write_omezarr_adv"
    /\ wo_pc = "start"
    /\ LET target == PathStr(zarr_path)
       IN  IF array5d.ndim > 5
           THEN /\ wo_ret' = ReturnNone
                /\ wo_pc' = "done"
                /\ UNCHANGED <<wo_fs, wo_events, wo_exc>>
           ELSE IF Exists(wo_fs, target) /\ wo_overwrite
           THEN IF wo_fs[target].kind = "dir"
                THEN /\ wo_fs' = RmTree(wo_fs, target)
                     /\ wo_events' = Append(wo_events, "rmtree")
                     /\ wo_pc' = "store"
                     /\ UNCHANGED <<wo_ret, wo_exc>>
                ELSE /\ wo_exc' = "NotADirectoryError"
                     /\ wo_pc' = "raised"
                     /\ UNCHANGED <<wo_fs, wo_events, wo_ret>>
           ELSE IF Exists(wo_fs, target) /\ ~wo_overwrite
           THEN /\ wo_ret' = ReturnNone
                /\ wo_pc' = "done"
                /\ UNCHANGED <<wo_fs, wo_events, wo_exc>>
           ELSE /\ wo_pc' = "store"
                /\ UNCHANGED <<wo_fs, wo_events, wo_ret, wo_exc>>
    /\ UNCHANGED <<array5d, zarr_path, metadata, wo_overwrite, channel_index, wo_fn, mdata_global,
                   wo_fs0, display>>
    /\ UNCHANGED <<exVars, plVars, cvVars, sc_pc>>

\* write_omezarr_adv.py, lines 96-109: the store and its root group, then
\* write_image with axes=array5d.axes[1:].lower(); an array without the
\* attribute axes raises when the argument is evaluated, and write_image
\* refuses axes whose number is not the number of dimensions
wo_write_image ==
    /\ wo_fn = "write_omezarr_adv"
    /\ wo_pc = "store"
    /\ LET target == PathStr(zarr_path)
           root   == EmptyImageTree
       IN  IF ~array5d.has_axes
           THEN /\ wo_fs' = PutImageTree(wo_fs, target, root)
                /\ wo_events' = Append(wo_events, "group")
                /\ wo_exc' = "AttributeError"
                /\ wo_pc' = "raised"
           ELSE IF Len(array5d.axes) - 1 # array5d.ndim
           THEN /\ wo_fs' = PutImageTree(wo_fs, target, root)
                /\ wo_events' = Append(wo_events, "group")
                /\ wo_exc' = "ValueError"
                /\ wo_pc' = "raised"
           ELSE /\ wo_fs' = PutImageTree(wo_fs, target, [root EXCEPT !.image = TRUE])
                /\ wo_events' = Append(Append(wo_events, "group"), "image")
                /\ wo_pc' = "channels"
                /\ UNCHANGED wo_exc
    /\ UNCHANGED <<array5d, zarr_path, metadata, wo_overwrite, channel_index, wo_fn, mdata_global,
                   wo_fs0, wo_ret, display>>
    /\ UNCHANGED <<exVars, plVars, cvVars, sc_pc>>

\* write_omezarr_adv.py, lines 111-127: the loop runs over the channels of
\* the module global mdata (g) and reads its colors and names; only
\* get_display is given the parameter metadata (md). The list stops at the
\* first channel whose lookup raises.
RECURSIVE ChannelsList(_, _, _)
ChannelsList(md, g, ch_index) ==
    IF ch_index >= g.SizeC THEN [raised |-> None, channels |-> <<>>]
    ELSE IF ch_index >= Len(g.colors) \/ ch_index >= Len(g.names)
    THEN [raised |-> "IndexError", channels |-> <<>>]
    ELSE LET d == get_display(md, ch_index)
         IN  IF d.raised # None THEN [raised |-> d.raised, channels |-> <<>>]
             ELSE LET rest == ChannelsList(md, g, ch_index + 1)
                      rgb  == SubSeq(g.colors[ch_index + 1], 4,
                                     Len(g.colors[ch_index + 1]))
                  IN  [raised   |-> rest.raised,
                       channels |->
                           <<[color  |-> rgb,
                              label  |-> g.names[ch_index + 1],
                              active |-> TRUE,
                              window |-> [min |-> d.lower, start |-> d.lower,
                                          end |-> d.higher, max |-> d.maxvalue]]>>
                           \o rest.channels]

\* write_omezarr_adv.py, lines 111-130: the channel loop, add_metadata and
\* the return
wo_channels ==
    /\ wo_fn = "write_omezarr_adv"
    /\ wo_pc = "channels"
    /\ LET target == PathStr(zarr_path)
           cl     == ChannelsList(metadata, mdata_global, 0)
       IN  IF cl.raised # None
           THEN /\ wo_exc' = cl.raised
                /\ wo_pc' = "raised"
                /\ UNCHANGED <<wo_fs, wo_events, wo_ret>>
           ELSE /\ wo_fs' = [wo_fs EXCEPT
                                ![target].tree.omero =
                                    <<[name |-> metadata.filename,
                                       channels |-> cl.channels]>>]
                /\ wo_events' = Append(wo_events, "omero")
                /\ wo_ret' = ReturnPath(zarr_path)
                /\ wo_pc' = "done"
                /\ UNCHANGED wo_exc
    /\ UNCHANGED <<array5d, zarr_path, metadata, wo_overwrite, channel_index, wo_fn, mdata_global,
                   wo_fs0, display>>
    /\ UNCHANGED <<exVars, plVars, cvVars, sc_pc>>

\* write_omezarr of write_omezarr_ngff.py, lines 64-75
ngff_check ==
    /\ wo_fn = "write_omezarr_ngff"
    /\ wo_pc = "start"
    /\ LET target == PathStr(zarr_path)
       IN  IF array5d.ndim > 5
           THEN /\ wo_ret' = ReturnNone
                /\ wo_pc' = "done"
                /\ UNCHANGED <<wo_fs, wo_events, wo_exc>>
           ELSE IF Exists(wo_fs, target) /\ wo_overwrite
           THEN IF wo_fs[target].kind = "dir"
                THEN /\ wo_fs' = RmTree(wo_fs, target)
                     /\ wo_events' = Append(wo_events, "rmtree")
                     /\ wo_pc' = "store"
                     /\ UNCHANGED <<wo_ret, wo_exc>>
                ELSE /\ wo_exc' = "NotADirectoryError"
                     /\ wo_pc' = "raised"
                     /\ UNCHANGED <<wo_fs, wo_events, wo_ret>>
           ELSE IF Exists(wo_fs, target) /\ ~wo_overwrite
           THEN /\ wo_ret' = ReturnNone
                /\ wo_pc' = "done"
                /\ UNCHANGED <<wo_fs, wo_events, wo_exc>>
           ELSE /\ wo_pc' = "store"
                /\ UNCHANGED <<wo_fs, wo_events, wo_ret, wo_exc>>
    /\ UNCHANGED <<array5d, zarr_path, metadata, wo_overwrite, channel_index, wo_fn, mdata_global,
                   wo_fs0, display>>
    /\ UNCHANGED <<exVars, plVars, cvVars, sc_pc>>

\* write_omezarr_ngff.py, lines 78-91
ngff_write_image ==
    /\ wo_fn = "write_omezarr_ngff"
    /\ wo_pc = "store"
    /\ LET target == PathStr(zarr_path)
           root   == EmptyImageTree
       IN  IF ~array5d.has_axes
           THEN /\ wo_fs' = PutImageTree(wo_fs, target, root)
                /\ wo_events' = Append(wo_events, "group")
                /\ wo_exc' = "AttributeError"
                /\ wo_pc' = "raised"
           ELSE IF Len(array5d.axes) - 1 # array5d.ndim
           THEN /\ wo_fs' = PutImageTree(wo_fs, target, root)
                /\ wo_events' = Append(wo_events, "group")
                /\ wo_exc' = "ValueError"
                /\ wo_pc' = "raised"
           ELSE /\ wo_fs' = PutImageTree(wo_fs, target, [root EXCEPT !.image = TRUE])
                /\ wo_events' = Append(Append(wo_events, "group"), "image")
                /\ wo_pc' = "channels"
                /\ UNCHANGED wo_exc
    /\ UNCHANGED <<array5d, zarr_path, metadata, wo_overwrite, channel_index, wo_fn, mdata_global,
                   wo_fs0, wo_ret, display>>
    /\ UNCHANGED <<exVars, plVars, cvVars, sc_pc>>

\* write_omezarr_ngff.py, lines 93-106: the loop over the channels of the
\* module global mdata (g); no display window is computed
RECURSIVE PlainChannelsList(_, _)
PlainChannelsList(g, ch_index) ==
    IF ch_index >= g.SizeC THEN [raised |-> None, channels |-> <<>>]
    ELSE IF ch_index >= Len(g.colors) \/ ch_index >= Len(g.names)
    THEN [raised |-> "IndexError", channels |-> <<>>]
    ELSE LET rest == PlainChannelsList(g, ch_index + 1)
             rgb  == SubSeq(g.colors[ch_index + 1], 4, Len(g.colors[ch_index + 1]))
         IN  [raised   |-> rest.raised,
              channels |-> <<[color  |-> rgb,
                              label  |-> g.names[ch_index + 1],
                              active |-> TRUE]>>
                           \o rest.channels]

\* write_omezarr_ngff.py, lines 93-113
ngff_channels ==
    /\ wo_fn = "write_omezarr_ngff"
    /\ wo_pc = "channels"
    /\ LET target == PathStr(zarr_path)
           cl     == PlainChannelsList(mdata_global, 0)
       IN  IF cl.raised # None
           THEN /\ wo_exc' = cl.raised
                /\ wo_pc' = "raised"
                /\ UNCHANGED <<wo_fs, wo_events, wo_ret>>
           ELSE /\ wo_fs' = [wo_fs EXCEPT
                                ![target].tree.omero =
                                    <<[name |-> metadata.filename,
                                       channels |-> cl.channels]>>]
                /\ wo_events' = Append(wo_events, "omero")
                /\ wo_ret' = ReturnPath(zarr_path)
                /\ wo_pc' = "done"
                /\ UNCHANGED wo_exc
    /\ UNCHANGED <<array5d, zarr_path, metadata, wo_overwrite, channel_index, wo_fn, mdata_global,
                   wo_fs0, display>>
    /\ UNCHANGED <<exVars, plVars, cvVars, sc_pc>>

\* ".ome.zarr"
OmeZarrSuffix == <<46, 111, 109, 101, 46, 122, 97, 114, 114>>

\* write_omezarr_ngff of xarray_issue_ngff.py, lines 10-37: no look at the
\* dimensions; an existing target is removed or the call gives up; the image
\* is built and written with ngff-zarr and the NgffImage is returned
write_omezarr_ngff ==
    /\ wo_fn = "xarray_issue_ngff"
    /\ wo_pc = "start"
    /\ LET target == PathStr(zarr_path)
           name   == SubSeq(metadata.filename, 1, Len(metadata.filename) - 4)
                         \o OmeZarrSuffix
           tree   == [EmptyImageTree EXCEPT !.image = TRUE]
       IN  IF Exists(wo_fs, target) /\ wo_overwrite
           THEN IF wo_fs[target].kind = "dir"
                THEN /\ wo_fs' = PutImageTree(RmTree(wo_fs, target), target, tree)
                     /\ wo_events' = wo_events \o <<"rmtree", "ngff_image">>
                     /\ wo_ret' = ReturnImage(name)
                     /\ wo_pc' = "done"
                     /\ UNCHANGED wo_exc
                ELSE /\ wo_exc' = "NotADirectoryError"
                     /\ wo_pc' = "raised"
                     /\ UNCHANGED <<wo_fs, wo_events, wo_ret>>
           ELSE IF Exists(wo_fs, target) /\ ~wo_overwrite
           THEN /\ wo_ret' = ReturnNone
                /\ wo_pc' = "done"
                /\ UNCHANGED <<wo_fs, wo_events, wo_exc>>
           ELSE /\ wo_fs' = PutImageTree(wo_fs, target, tree)
                /\ wo_events' = Append(wo_events, "ngff_image")
                /\ wo_ret' = ReturnImage(name)
                /\ wo_pc' = "done"
                /\ UNCHANGED wo_exc
    /\ UNCHANGED <<array5d, zarr_path, metadata, wo_overwrite, channel_index, wo_fn, mdata_global,
                   wo_fs0, display>>
    /\ UNCHANGED <<exVars, plVars, cvVars, sc_pc>>

-----------------------------------------------------------------------------
(* The script of write_hcs_ngffzarr.py *)

\* lines 40-48
columns ==
    << [name |-> <<52>>],
       [name |-> <<53>>],
       [name |-> <<54>>],
       [name |-> <<55>>],
       [name |-> <<56>>],
       [name |-> <<57>>],
       [name |-> <<49, 48>>] >>

\* line 49
rows == << [name |-> <<66>>] >>

\* lines 50-58
wells ==
    << [path |-> <<66, 47, 52>>, rowIndex |-> 1, columnIndex |-> 3],
       [path |-> <<66, 47, 53>>, rowIndex |-> 1, columnIndex |-> 4],
       [path |-> <<66, 47, 54>>, rowIndex |-> 1, columnIndex |-> 5],
       [path |-> <<66, 47, 55>>, rowIndex |-> 1, columnIndex |-> 6],
       [path |-> <<66, 47, 56>>, rowIndex |-> 1, columnIndex |-> 7],
       [path |-> <<66, 47, 57>>, rowIndex |-> 1, columnIndex |-> 8],
       [path |-> <<66, 47, 49, 48>>, rowIndex |-> 1, columnIndex |-> 9] >>

\* line 60: Plate(columns=columns, rows=rows, wells=wells, name=..., field_count=4)
plate_96 ==
    [name |-> "Example Plate96", columns |-> columns, rows |-> rows,
     wells |-> wells, field_count |-> 4]

\* line 21: array6d, mdata = read_tools.read_6darray(czi_filepath, use_xarray=False)
sc_read ==
    /\ sc_pc = "start"
    /\ mdata' = <<SampleOf(czi)>>
    /\ events' = Append(events, Event("read", <<>>, 0 - 1))
    /\ sc_pc' = "existing"
    /\ UNCHANGED <<czi_filepath, overwrite, czi, fs0, fs, field_paths, wi, fi, exc>>
    /\ UNCHANGED <<exVars, plate>>
    /\ UNCHANGED <<plate_type, well_count, field_count, pl_pc, config, error>>
    /\ UNCHANGED <<cv_pc, ret>>
    /\ UNCHANGED woVars

\* lines 25-33: the output path and the existing store
sc_check_existing ==
    /\ sc_pc = "existing"
    /\ IF Exists(fs, zarr_output_path)
       THEN IF overwrite
            THEN IF fs[zarr_output_path].kind = "dir"
                 THEN /\ fs' = RmTree(fs, zarr_output_path)
                      /\ events' = Append(events, Event("rmtree", <<>>, 0 - 1))
                      /\ sc_pc' = "layout"
                      /\ UNCHANGED exc
                 ELSE /\ exc' = "NotADirectoryError"
                      /\ sc_pc' = "raised"
                      /\ UNCHANGED <<fs, events>>
            ELSE /\ sc_pc' = "exited"
                 /\ UNCHANGED <<fs, events, exc>>
       ELSE /\ sc_pc' = "layout"
            /\ UNCHANGED <<fs, events, exc>>
    /\ UNCHANGED <<czi_filepath, overwrite, czi, fs0, mdata, field_paths, wi, fi>>
    /\ UNCHANGED <<exVars, plate>>
    /\ UNCHANGED <<plate_type, well_count, field_count, pl_pc, config, error>>
    /\ UNCHANGED <<cv_pc, ret>>
    /\ UNCHANGED woVars

\* line 36: the call of extract_well_coordinates(mdata.sample.well_counter)
sc_layout ==
    /\ sc_pc = "layout"
    /\ well_counter' = mdata[1].well_counter
    /\ ex_pc' = "call"
    /\ sc_pc' = "extract"
    /\ UNCHANGED <<labels, row_names, col_names, well_paths>>
    /\ UNCHANGED <<czi_filepath, overwrite, czi, fs0, fs, mdata, field_paths, wi, fi,
                   events, exc>>
    /\ UNCHANGED plate
    /\ UNCHANGED <<plate_type, well_count, field_count, pl_pc, config, error>>
    /\ UNCHANGED <<cv_pc, ret>>
    /\ UNCHANGED woVars

\* line 37: field_paths from the count of the first scene's well
sc_field_paths ==
    /\ sc_pc = "extract"
    /\ ex_pc = "done"
    /\ IF mdata[1].well_array_names = <<>>
       THEN /\ exc' = "IndexError"
            /\ sc_pc' = "raised"
            /\ UNCHANGED field_paths
       ELSE /\ field_paths' =
                 [i \in 1..mdata[1].well_counter[mdata[1].well_array_names[1]] |->
                     Str(i - 1)]
            /\ sc_pc' = "plate"
            /\ UNCHANGED exc
    /\ UNCHANGED <<czi_filepath, overwrite, czi, fs0, fs, mdata, wi, fi, events>>
    /\ UNCHANGED <<exVars, plate>>
    /\ UNCHANGED <<plate_type, well_count, field_count, pl_pc, config, error>>
    /\ UNCHANGED <<cv_pc, ret>>
    /\ UNCHANGED woVars

\* lines 40-64: the hand-built plate, and to_hcs_zarr writing its metadata
sc_build_plate ==
    /\ sc_pc = "plate"
    /\ plate' = plate_96
    /\ fs' = PutTree(fs, zarr_output_path,
                 [OpenStore(fs, zarr_output_path) EXCEPT !.plate = <<plate_96>>])
    /\ events' = Append(events, Event("plate", <<>>, 0 - 1))
    /\ wi' = 1
    /\ fi' = 0
    /\ sc_pc' = "field"
    /\ UNCHANGED <<czi_filepath, overwrite, czi, fs0, mdata, field_paths, exc>>
    /\ UNCHANGED exVars
    /\ UNCHANGED <<plate_type, well_count, field_count, pl_pc, config, error>>
    /\ UNCHANGED <<cv_pc, ret>>
    /\ UNCHANGED woVars

\* lines 66-95: the scene of the next field of the well, and its image
sc_field ==
    /\ sc_pc = "field"
    /\ wi <= Len(plate.wells)
    /\ fi < Len(field_paths)
    /\ LET well            == plate.wells[wi]
           current_well_id == SelectSeq(well.path, NotSlash)
           group           == WellPath(well.path, Str(fi))
           tree            == fs[zarr_output_path].tree
           scenes          == mdata[1].well_scene_indices
       IN  IF current_well_id \notin DOMAIN scenes
           THEN /\ exc' = "KeyError"
                /\ sc_pc' = "raised"
                /\ UNCHANGED <<fs, events, fi>>
           ELSE IF fi >= Len(scenes[current_well_id])
           THEN /\ exc' = "IndexError"
                /\ sc_pc' = "raised"
                /\ UNCHANGED <<fs, events, fi>>
           ELSE /\ fs' = PutTree(fs, zarr_output_path,
                            [tree EXCEPT
                                !.groups = @ \cup {group},
                                !.images = DictPut(@, group,
                                               scenes[current_well_id][fi + 1])])
                /\ events' = Append(events,
                                Event("image", group, scenes[current_well_id][fi + 1]))
                /\ fi' = fi + 1
                /\ UNCHANGED <<sc_pc, exc>>
    /\ UNCHANGED <<czi_filepath, overwrite, czi, fs0, mdata, field_paths, wi>>
    /\ UNCHANGED <<exVars, plate>>
    /\ UNCHANGED <<plate_type, well_count, field_count, pl_pc, config, error>>
    /\ UNCHANGED <<cv_pc, ret>>
    /\ UNCHANGED woVars

\* the inner loop ends: on to the next well of the list wells
sc_next_well ==
    /\ sc_pc = "field"
    /\ wi <= Len(plate.wells)
    /\ fi >= Len(field_paths)
    /\ wi' = wi + 1
    /\ fi' = 0
    /\ UNCHANGED <<czi_filepath, overwrite, czi, fs0, fs, mdata, field_paths,
                   events, exc>>
    /\ UNCHANGED <<exVars, plate, sc_pc>>
    /\ UNCHANGED <<plate_type, well_count, field_count, pl_pc, config, error>>
    /\ UNCHANGED <<cv_pc, ret>>
    /\ UNCHANGED woVars

\* lines 97-100: nz.from_hcs_zarr(zarr_output_path, validate=True) reads the
\* store back; whether the schema accepts it is the library's decision
sc_validate ==
    /\ sc_pc = "field"
    /\ wi > Len(plate.wells)
    /\ events' = Append(events, Event("validate", <<>>, 0 - 1))
    /\ \/ sc_pc' = "done" /\ UNCHANGED exc
       \/ sc_pc' = "raised" /\ exc' = "ValidationError"
    /\ UNCHANGED <<czi_filepath, overwrite, czi, fs0, fs, mdata, field_paths, wi, fi>>
    /\ UNCHANGED <<exVars, plate>>
    /\ UNCHANGED <<plate_type, well_count, field_count, pl_pc, config, error>>
    /\ UNCHANGED <<cv_pc, ret>>
    /\ UNCHANGED woVars

-----------------------------------------------------------------------------
(* Inputs of extract_well_coordinates *)

\* well tokens of the form letters-then-digits:
\*   B4 B5 B2 B10 B1 A1 A2 A10 AB1 b4, and with characters outside ASCII
\*   e-acute 4 (code point 233) and B superscript-two (code point 178)
WellFormedTokens ==
    { <<66, 52>>, <<66, 53>>, <<66, 50>>, <<66, 49, 48>>, <<66, 49>>,
      <<65, 49>>, <<65, 50>>, <<65, 49, 48>>, <<65, 66, 49>>, <<98, 52>>,
      <<233, 52>>, <<66, 178>> }

\* other string keys:  ""  4  B  4B  A1B2  1A2  B-4
OtherTokens ==
    { <<>>, <<52>>, <<66>>, <<52, 66>>, <<65, 49, 66, 50>>, <<49, 65, 50>>,
      <<66, 45, 52>> }

Tokens == WellFormedTokens \cup OtherTokens

\* number of keys of well_counter
MaxWells == 3

\* the acquisition count of the docstring's example {'B4': 4, 'B5': 4}
ExampleCount == 4

\* the dicts with at most MaxWells keys, all of Tokens
WellCounters ==
    LET ts == Sorted(Tokens)
    IN  {[w \in {ts[i] : i \in J} |-> ExampleCount] :
            J \in {I \in SUBSET (1..Len(ts)) : Cardinality(I) <= MaxWells}}

plIdle ==
    /\ plate_type = None
    /\ well_count = 0
    /\ field_count = 1
    /\ pl_pc = "idle"
    /\ config = None
    /\ plate = None
    /\ error = None

cvIdle ==
    /\ czi_filepath = <<>>
    /\ overwrite = TRUE
    /\ czi = <<>>
    /\ fs0 = <<>>
    /\ fs = <<>>
    /\ cv_pc = "idle"
    /\ mdata = <<>>
    /\ field_paths = <<>>
    /\ wi = 0
    /\ fi = 0
    /\ events = <<>>
    /\ ret = None
    /\ exc = None

woIdle ==
    /\ array5d = None
    /\ zarr_path = <<>>
    /\ metadata = None
    /\ wo_overwrite = FALSE
    /\ channel_index = 0
    /\ wo_pc = "idle"
    /\ wo_fs0 = <<>>
    /\ wo_fs = <<>>
    /\ wo_events = <<>>
    /\ wo_ret = NotReturned
    /\ wo_exc = None
    /\ display = None
    /\ wo_fn = None
    /\ mdata_global = None

scIdle == sc_pc = "idle"

InitExtract ==
    /\ well_counter \in WellCounters
    /\ ex_pc = "call"
    /\ labels = <<>>
    /\ row_names = <<>>
    /\ col_names = <<>>
    /\ well_paths = <<>>
    /\ plIdle
    /\ cvIdle
    /\ woIdle
    /\ scIdle

NextExtract == extract_well_coordinates

SpecExtract == InitExtract /\ [][NextExtract]_vars

-----------------------------------------------------------------------------
(* Inputs of define_plate and define_plate_by_well_count *)

\* well_count is drawn from -1..MaxWellCount
MaxWellCount == 1537

\* field_count is drawn from 1..MaxFieldCount
MaxFieldCount == 2

exIdle ==
    /\ well_counter = <<>>
    /\ ex_pc = "idle"
    /\ labels = <<>>
    /\ row_names = <<>>
    /\ col_names = <<>>
    /\ well_paths = <<>>

InitPlate ==
    /\ \/ /\ pl_pc = "call_by_type"
          /\ plate_type \in PlateTypeNames
          /\ well_count = 0
       \/ /\ pl_pc = "call_by_count"
          /\ plate_type = None
          /\ well_count \in (0 - 1)..MaxWellCount
    /\ field_count \in 1..MaxFieldCount
    /\ config = None
    /\ plate = None
    /\ error = None
    /\ exIdle
    /\ cvIdle
    /\ woIdle
    /\ scIdle

NextPlate == define_plate \/ define_plate_by_well_count

SpecPlate == InitPlate /\ [][NextPlate]_vars

-----------------------------------------------------------------------------
(* Inputs of convert_czi_to_hcs_zarr *)

\* the wells a scene can lie in: A1 A2 B1 B2
SceneWells == { <<65, 49>>, <<65, 50>>, <<66, 49>>, <<66, 50>> }

\* number of scenes of the CZI file
MaxScenes == 3

\* "p.czi", "./p.czi", "d//p.czi", "czi" and "//d/p.czi"
CziPaths == { <<112, 46, 99, 122, 105>>,
              <<47, 47, 100, 47, 112, 46, 99, 122, 105>>,
              <<46, 47, 112, 46, 99, 122, 105>>,
              <<100, 47, 47, 112, 46, 99, 122, 105>>,
              <<99, 122, 105>> }

\* a store this call does not name: "other.zarr"
OtherStore == <<111, 116, 104, 101, 114, 46, 122, 97, 114, 114>>

\* what is at the output path when the call starts: nothing, a store left by
\* an earlier run, or a regular file
FileSystems(path) ==
    LET other == [q \in {OtherStore} |-> [kind |-> "dir", tree |-> OldTree]]
    IN  { other,
          PutTree(other, path, OldTree),
          [q \in {OtherStore, path} |->
              IF q = path THEN [kind |-> "file", tree |-> OldTree] ELSE other[q]] }

Init ==
    /\ czi_filepath \in CziPaths
    /\ overwrite \in BOOLEAN
    /\ czi \in UNION {[1..n -> SceneWells] : n \in 0..MaxScenes}
    /\ fs0 \in FileSystems(OutputPath(czi_filepath))
    /\ fs = fs0
    /\ cv_pc = "start"
    /\ mdata = <<>>
    /\ field_paths = <<>>
    /\ wi = 0
    /\ fi = 0
    /\ events = <<>>
    /\ ret = None
    /\ exc = None
    /\ exIdle
    /\ plIdle
    /\ woIdle
    /\ scIdle

Next ==
    \/ cv_check_existing
    \/ cv_read
    \/ cv_layout
    \/ extract_well_coordinates
    \/ cv_field_paths
    \/ cv_write_plate
    \/ cv_well
    \/ cv_field
    \/ cv_next_well
    \/ cv_return

Spec == Init /\ [][Next]_vars

-----------------------------------------------------------------------------
(* Inputs of get_display and the OME-ZARR writers *)

\* metadata.image.SizeC and the lengths of the per-channel lists are drawn
\* from 0..MaxChannels
MaxChannels == 2

\* the display limits of a channel, as fractions of its maximum:
\* (1/4, 3/4) and (1/2, 1)
ClimPairs ==
    { << [num |-> 1, den |-> 4], [num |-> 3, den |-> 4] >>,
      << [num |-> 1, den |-> 2], [num |-> 1, den |-> 1] >> }

\* the largest pixel value of a channel
MaxValues == {255, 10}

\* a channel colour "#FFFF0000" and a channel name "DAPI"
ChannelColor == <<35, 70, 70, 70, 70, 48, 48, 48, 48>>
ChannelName  == <<68, 65, 80, 73>>

\* metadata.filename: "f.czi"
FileName == <<102, 46, 99, 122, 105>>

\* the lists over S of a length in lens
ListsOf(S, lens) == UNION {[1..n -> S] : n \in lens}

\* the fields of a CziMetadata the functions read; has_maxvalue tells
\* whether the object has the attribute maxvalue at all
Metadatas(sizes, lens, pairs, values) ==
    { md \in [SizeC : sizes,
              colors : ListsOf({ChannelColor}, lens),
              names : ListsOf({ChannelName}, lens),
              clims : ListsOf(pairs, 0..MaxChannels),
              maxvalue_list : ListsOf(values, 0..MaxChannels),
              has_maxvalue : BOOLEAN,
              maxvalue : ListsOf(values, 0..MaxChannels),
              filename : {FileName}] :
        md.has_maxvalue \/ md.maxvalue = <<>> }

\* a CziMetadata as czitools reads it from a file with MaxChannels channels
WellFormedMetadata ==
    [SizeC |-> MaxChannels,
     colors |-> [i \in 1..MaxChannels |-> ChannelColor],
     names |-> [i \in 1..MaxChannels |-> ChannelName],
     clims |-> [i \in 1..MaxChannels |->
                   <<[num |-> 1, den |-> 4], [num |-> 3, den |-> 4]>>],
     maxvalue_list |-> [i \in 1..MaxChannels |-> 255],
     has_maxvalue |-> FALSE,
     maxvalue |-> <<>>,
     filename |-> FileName]

\* the metadata objects the writers are run on: any channel count and any
\* lengths of colors and names, clims as long as maxvalue_list, and maxvalue
\* missing or equal to maxvalue_list
WriterMetadatas ==
    { md \in Metadatas(0..MaxChannels, 0..MaxChannels,
                       {<<[num |-> 1, den |-> 4], [num |-> 3, den |-> 4]>>}, {255}) :
        /\ Len(md.clims) = Len(md.maxvalue_list)
        /\ md.has_maxvalue => md.maxvalue = md.maxvalue_list }

\* "STCZYX", the axes attribute read_6darray gives its array
AxesSTCZYX == <<83, 84, 67, 90, 89, 88>>

\* the arrays: 4, 5 or 6 dimensions with the attribute axes, and one of 5
\* dimensions without it (a numpy or dask array)
Arrays ==
    { [ndim |-> n, has_axes |-> TRUE, axes |-> AxesSTCZYX] : n \in 4..6 }
    \cup { [ndim |-> 5, has_axes |-> FALSE, axes |-> <<>>] }

\* "o.zarr" and "./o.zarr"
ZarrPaths == { <<111, 46, 122, 97, 114, 114>>,
               <<46, 47, 111, 46, 122, 97, 114, 114>> }

\* what is at the target path when a writer starts: nothing, a store left by
\* an earlier run, or a regular file
ImageFileSystems(path) ==
    LET other == [q \in {OtherStore} |-> [kind |-> "dir", tree |-> OldImageTree]]
    IN  { other,
          [q \in {OtherStore, path} |-> [kind |-> "dir", tree |-> OldImageTree]],
          [q \in {OtherStore, path} |->
              IF q = path THEN [kind |-> "file", tree |-> OldImageTree]
              ELSE other[q]] }

Writers == {"write_omezarr_adv", "write_omezarr_ngff", "xarray_issue_ngff"}

InitOmeZarr ==
    /\ \/ /\ wo_fn = "get_display"
          /\ metadata \in Metadatas({MaxChannels}, {0}, ClimPairs, MaxValues)
          /\ mdata_global = metadata
          /\ channel_index \in 0..MaxChannels
          /\ array5d = [ndim |-> 5, has_axes |-> TRUE, axes |-> AxesSTCZYX]
          /\ zarr_path = <<>>
          /\ wo_overwrite = FALSE
          /\ wo_fs0 = <<>>
       \/ /\ wo_fn \in Writers
          /\ metadata = WellFormedMetadata
          /\ mdata_global = metadata
          /\ channel_index = 0
          /\ array5d \in Arrays
          /\ zarr_path \in ZarrPaths
          /\ wo_overwrite \in BOOLEAN
          /\ wo_fs0 \in ImageFileSystems(PathStr(zarr_path))
       \/ /\ wo_fn \in Writers
          /\ metadata \in WriterMetadatas
          /\ mdata_global \in {[metadata EXCEPT !.SizeC = c] : c \in 0..MaxChannels}
          /\ channel_index = 0
          /\ array5d = [ndim |-> 5, has_axes |-> TRUE, axes |-> AxesSTCZYX]
          /\ zarr_path \in ZarrPaths
          /\ wo_overwrite = TRUE
          /\ wo_fs0 \in ImageFileSystems(PathStr(zarr_path))
    /\ wo_pc = "start"
    /\ wo_fs = wo_fs0
    /\ wo_events = <<>>
    /\ wo_ret = NotReturned
    /\ wo_exc = None
    /\ display = None
    /\ exIdle
    /\ plIdle
    /\ cvIdle
    /\ scIdle

NextOmeZarr ==
    \/ call_get_display
    \/ wo_check
    \/ wo_write_image
    \/ wo_channels
    \/ ngff_check
    \/ ngff_write_image
    \/ ngff_channels
    \/ write_omezarr_ngff

SpecOmeZarr == InitOmeZarr /\ [][NextOmeZarr]_vars

-----------------------------------------------------------------------------
(* Inputs of the script of write_hcs_ngffzarr.py *)

\* line 18: "data/WP96_4Pos_B4-10_DAPI.czi"
ScriptCziPath == <<100, 97, 116, 97, 47, 87, 80, 57, 54, 95, 52, 80, 111, 115, 95, 66, 52, 45, 49, 48, 95, 68, 65, 80, 73, 46, 99, 122, 105>>

\* the wells of the plate the file name speaks of, in acquisition order:
\* B4 B5 B6 B7 B8 B9 B10
ScriptWells == << <<66, 52>>, <<66, 53>>, <<66, 54>>, <<66, 55>>, <<66, 56>>, <<66, 57>>, <<66, 49, 48>> >>

\* positions acquired per well
MaxPositions == 4

\* the wells of the scenes of a CZI in which the wells of `acquired` were
\* acquired one after the other, n positions each
RECURSIVE ScenesOf(_, _, _)
ScenesOf(i, acquired, n) ==
    IF i > Len(ScriptWells) THEN <<>>
    ELSE (IF i \in acquired THEN [k \in 1..n |-> ScriptWells[i]] ELSE <<>>)
         \o ScenesOf(i + 1, acquired, n)

InitScript ==
    /\ sc_pc = "start"
    /\ czi_filepath = ScriptCziPath
    /\ overwrite = TRUE
    /\ czi \in {ScenesOf(1, acquired, n) :
                   acquired \in SUBSET (1..Len(ScriptWells)), n \in 1..MaxPositions}
    /\ fs0 \in FileSystems(OutputPath(czi_filepath))
    /\ fs = fs0
    /\ cv_pc = "idle"
    /\ mdata = <<>>
    /\ field_paths = <<>>
    /\ wi = 0
    /\ fi = 0
    /\ events = <<>>
    /\ ret = None
    /\ exc = None
    /\ exIdle
    /\ plIdle
    /\ woIdle

NextScript ==
    \/ sc_read
    \/ sc_check_existing
    \/ sc_layout
    \/ extract_well_coordinates
    \/ sc_field_paths
    \/ sc_build_plate
    \/ sc_field
    \/ sc_next_well
    \/ sc_validate

SpecScript == InitScript /\ [][NextScript]_vars

-----------------------------------------------------------------------------
(* Properties of extract_well_coordinates *)

Keys == DOMAIN well_counter

\* positions of tok holding a character of class P
ClassPositions(tok, P(_)) == {i \in 1..Len(tok) : P(tok[i])}

\* tok is one or more letters followed by one or more digits
IsLettersThenDigits(tok) ==
    \E k \in 1..(Len(tok) - 1) :
        /\ \A i \in 1..k : IsAlpha(tok[i])
        /\ \A i \in (k + 1)..Len(tok) : IsDigit(tok[i])

\* the letter run and the digit run of a letters-then-digits token
LetterRun(tok) ==
    LET k == CHOOSE n \in 1..(Len(tok) - 1) :
                 IsAlpha(tok[n]) /\ ~IsAlpha(tok[n + 1])
    IN  SubSeq(tok, 1, k)
DigitRun(tok) ==
    LET k == CHOOSE n \in 1..(Len(tok) - 1) :
                 IsAlpha(tok[n]) /\ ~IsAlpha(tok[n + 1])
    IN  SubSeq(tok, k + 1, Len(tok))

\* lab is a maximal contiguous run of class-P characters of tok (the empty
\* label when tok has no character of the class)
IsMaximalRun(lab, tok, P(_)) ==
    \/ lab = <<>> /\ ClassPositions(tok, P) = {}
    \/ \E i \in 1..Len(tok) : \E j \in i..Len(tok) :
         /\ SubSeq(tok, i, j) = lab
         /\ \A k \in i..j : P(tok[k])
         /\ i = 1 \/ ~P(tok[i - 1])
         /\ j = Len(tok) \/ ~P(tok[j + 1])

\* number of maximal runs of class-P characters in tok
NumRuns(tok, P(_)) ==
    Cardinality({i \in ClassPositions(tok, P) : i = 1 \/ ~P(tok[i - 1])})

\* lab is the class-P characters of tok, all of them, in token order
IsClassChars(lab, tok, P(_)) ==
    /\ Len(lab) = Cardinality(ClassPositions(tok, P))
    /\ \A i \in ClassPositions(tok, P) :
         lab[Cardinality({j \in ClassPositions(tok, P) : j < i}) + 1] = tok[i]

\* a is before b in lexicographic code-point order
LexBefore(a, b) ==
    \E k \in 1..(Len(b)) :
        /\ k <= Len(a) + 1
        /\ \A i \in 1..(k - 1) : a[i] = b[i]
        /\ k = Len(a) + 1 \/ a[k] < b[k]

StrictlyAscending(s) == \A i \in 1..(Len(s) - 1) : LexBefore(s[i], s[i + 1])

NoDuplicates(s) == \A i, j \in 1..Len(s) : s[i] = s[j] => i = j

\* C1: for a well_counter whose keys are all letters-then-digits tokens,
\* row_names holds exactly the tokens' letter runs and col_names exactly the
\* tokens' digit runs.
C1_ExactRuns ==
    (ex_pc = "done" /\ \A w \in Keys : IsLettersThenDigits(w)) =>
        /\ Elems(row_names) = {LetterRun(w) : w \in Keys}
        /\ Elems(col_names) = {DigitRun(w) : w \in Keys}

\* AB1, B10 and A2 give the rows A, AB, B and the columns 1, 10, 2
C1_Witness ==
    /\ ex_pc = "done"
    /\ Keys = {<<65, 66, 49>>, <<66, 49, 48>>, <<65, 50>>}
    /\ Len(row_names) = 3
    /\ Len(col_names) = 3

\* C2: well_paths is the full product row_names x col_names as "{row}/{col}",
\* row-major, len(row_names)*len(col_names) entries, no duplicates, whatever
\* combinations are keys; {"B4", "B5"} gives ["B"], ["4","5"], ["B/4","B/5"].
C2_CartesianProduct ==
    ex_pc = "done" =>
        /\ Len(well_paths) = Len(row_names) * Len(col_names)
        /\ \A i \in 1..Len(row_names) : \A j \in 1..Len(col_names) :
             well_paths[(i - 1) * Len(col_names) + j]
                 = row_names[i] \o <<47>> \o col_names[j]
        /\ NoDuplicates(well_paths)
        /\ Keys = {<<66, 52>>, <<66, 53>>} =>
             /\ row_names = << <<66>> >>
             /\ col_names = << <<52>>, <<53>> >>
             /\ well_paths = << <<66, 47, 52>>, <<66, 47, 53>> >>

\* only A1 and B2 acquired: A/1, A/2, B/1, B/2 are all generated
C2_Witness ==
    /\ ex_pc = "done"
    /\ Keys = {<<65, 49>>, <<66, 50>>}
    /\ well_paths = << <<65, 47, 49>>, <<65, 47, 50>>, <<66, 47, 49>>, <<66, 47, 50>> >>

\* C3: row_names and col_names are each duplicate-free and ascending in
\* lexicographic string order; for B2 and B10 col_names is ["10", "2"] and
\* "B/10" precedes "B/2".
C3_LexicographicOrder ==
    ex_pc = "done" =>
        /\ StrictlyAscending(row_names)
        /\ StrictlyAscending(col_names)
        /\ NoDuplicates(row_names)
        /\ NoDuplicates(col_names)
        /\ Keys = {<<66, 50>>, <<66, 49, 48>>} =>
             /\ col_names = << <<49, 48>>, <<50>> >>
             /\ well_paths = << <<66, 47, 49, 48>>, <<66, 47, 50>> >>

C3_Witness ==
    /\ ex_pc = "done"
    /\ Keys = {<<66, 50>>, <<66, 49, 48>>}
    /\ col_names[1] = <<49, 48>>

\* C8 as claimed: for any token the row label is a maximal contiguous
\* alphabetic substring and the column label a maximal contiguous numeric
\* substring of the token.
C8_MaximalRunsClaimed ==
    ex_pc = "done" =>
        \A w \in Keys :
            /\ IsMaximalRun(labels[w].row, w, IsAlpha)
            /\ IsMaximalRun(labels[w].col, w, IsDigit)

\* C8 as amended: the row label is all alphabetic characters of the token in
\* token order, the column label all its digits, whatever the order of the
\* classes in the token; a label is a maximal contiguous substring whenever
\* the token's characters of that class form a single run.
C8_ClassCharacters ==
    ex_pc = "done" =>
        \A w \in Keys :
            /\ IsClassChars(labels[w].row, w, IsAlpha)
            /\ IsClassChars(labels[w].col, w, IsDigit)
            /\ NumRuns(w, IsAlpha) = 1 => IsMaximalRun(labels[w].row, w, IsAlpha)
            /\ NumRuns(w, IsDigit) = 1 => IsMaximalRun(labels[w].col, w, IsDigit)

\* 4B (digits first) gives B and 4; A1B2 (interleaved) gives AB and 12
C8_Witness ==
    /\ ex_pc = "done"
    /\ Keys = {<<52, 66>>, <<65, 49, 66, 50>>}
    /\ labels[<<52, 66>>] = [row |-> <<66>>, col |-> <<52>>]
    /\ labels[<<65, 49, 66, 50>>] = [row |-> <<65, 66>>, col |-> <<49, 50>>]

\* C9: a token with no letters contributes "" as a row label and a token with
\* no digits "" as a column label; the empty labels are in row_names or
\* col_names and in the well paths ("/4", "B/"); an empty well_counter gives
\* three empty lists.
C9_EmptyLabels ==
    ex_pc = "done" =>
        /\ \A w \in Keys :
             ClassPositions(w, IsAlpha) = {} =>
                /\ labels[w].row = <<>>
                /\ <<>> \in Elems(row_names)
                /\ \A c \in Elems(col_names) : <<47>> \o c \in Elems(well_paths)
        /\ \A w \in Keys :
             ClassPositions(w, IsDigit) = {} =>
                /\ labels[w].col = <<>>
                /\ <<>> \in Elems(col_names)
                /\ \A r \in Elems(row_names) : r \o <<47>> \in Elems(well_paths)
        /\ Keys = {} =>
             row_names = <<>> /\ col_names = <<>> /\ well_paths = <<>>

\* the keys "4" and "B" give the paths "/", "/4", "B/", "B/4"
C9_Witness ==
    /\ ex_pc = "done"
    /\ Keys = {<<52>>, <<66>>}
    /\ well_paths = << <<47>>, <<47, 52>>, <<66, 47>>, <<66, 47, 52>> >>

-----------------------------------------------------------------------------
(* Properties of the plate geometries *)

StandardWellCounts == {6, 24, 48, 96, 384, 1536}

IsDecimal(s) == Len(s) >= 1 /\ \A i \in 1..Len(s) : s[i] \in 48..57

\* the number a string of decimal digits denotes
RECURSIVE DecimalValue(_)
DecimalValue(s) ==
    IF s = <<>> THEN 0
    ELSE DecimalValue(SubSeq(s, 1, Len(s) - 1)) * 10 + (s[Len(s)] - 48)

Contains(text, part) ==
    \E i \in 1..(Len(text) - Len(part) + 1) :
        SubSeq(text, i, i + Len(part) - 1) = part

\* text holds the numeral of n: a maximal run of digits, with its sign
ContainsNumeral(text, n) ==
    \E i \in 1..Len(text) : \E j \in i..Len(text) :
        /\ IsDecimal(SubSeq(text, i, j))
        /\ i = 1 \/ text[i - 1] \notin 48..57
        /\ j = Len(text) \/ text[j + 1] \notin 48..57
        /\ n = IF i > 1 /\ text[i - 1] = 45
               THEN 0 - DecimalValue(SubSeq(text, i, j))
               ELSE DecimalValue(SubSeq(text, i, j))

\* "[6, 24, 48, 96, 384, 1536]"
SupportedListText == <<91, 54, 44, 32, 50, 52, 44, 32, 52, 56, 44, 32, 57, 54, 44, 32, 51, 56, 52, 44, 32, 49, 53, 51, 54, 93>>

ByCount == plate_type = None /\ pl_pc \in {"done", "raised"}

\* C4: for a well_count in {6,24,48,96,384,1536} and any field_count the
\* plate has exactly rows*columns wells, no two with the same
\* (rowIndex, columnIndex).
C4_WellListSize ==
    (ByCount /\ well_count \in StandardWellCounts) =>
        /\ pl_pc = "done"
        /\ Len(plate.wells) = config.rows * config.columns
        /\ Cardinality({<<plate.wells[k].rowIndex, plate.wells[k].columnIndex>> :
                           k \in 1..Len(plate.wells)}) = Len(plate.wells)

C4_Witness ==
    /\ pl_pc = "done"
    /\ well_count = 1536
    /\ field_count = 2
    /\ plate.field_count = 2
    /\ Len(plate.wells) = 32 * 48

\* C5: a well_count outside {6,24,48,96,384,1536} raises ValueError with no
\* plate built, the message holding the rejected well_count and the list of
\* the six supported counts; a well_count in the set raises nothing.
C5_UnsupportedWellCount ==
    ByCount =>
        /\ well_count \notin StandardWellCounts <=> pl_pc = "raised"
        /\ pl_pc = "raised" =>
             /\ plate = None
             /\ config = None
             /\ error.type = "ValueError"
             /\ ContainsNumeral(error.message, well_count)
             /\ Contains(error.message, SupportedListText)
        /\ pl_pc = "done" => error = None /\ Len(plate.wells) > 0

C5_Witness ==
    /\ pl_pc = "raised"
    /\ well_count = 12
    /\ error.message = 
        <<85, 110, 115, 117, 112, 112, 111, 114, 116, 101, 100, 32, 119, 101, 108, 108, 32, 99, 111, 117, 110, 116, 58, 32, 49, 50, 46, 32, 65, 118, 97, 105, 108, 97, 98, 108, 101, 32, 102, 111, 114, 109, 97, 116, 115, 58, 32, 91, 54, 44, 32, 50, 52, 44, 32, 52, 56, 44, 32, 57, 54, 44, 32, 51, 56, 52, 44, 32, 49, 53, 51, 54, 93>>

\* C6: in each of the six standard configurations row_labels is `rows`
\* distinct consecutive alphabetic letters from 'A' (every label a letter) and
\* column_labels the decimal strings of 1..columns in ascending order.
C6_ConsecutiveLetters ==
    pl_pc = "done" =>
        /\ Len(plate.rows) = config.rows
        /\ \A i \in 1..Len(plate.rows) :
             /\ Len(plate.rows[i].name) = 1
             /\ IsAlpha(plate.rows[i].name[1])
             /\ plate.rows[i].name[1] = 65 + (i - 1)
        /\ \A i, j \in 1..Len(plate.rows) :
             plate.rows[i].name = plate.rows[j].name => i = j
        /\ Len(plate.columns) = config.columns
        /\ \A j \in 1..Len(plate.columns) :
             /\ IsDecimal(plate.columns[j].name)
             /\ DecimalValue(plate.columns[j].name) = j

\* C7: for n in {6,24,48,96,384,1536} the configuration looked up has
\* total_wells = n and the plate has n wells; 96 gives rows A..H and columns
\* 1..12.
C7_TotalWells ==
    (ByCount /\ well_count \in StandardWellCounts) =>
        /\ pl_pc = "done"
        /\ config.rows * config.columns = well_count
        /\ Len(plate.wells) = well_count
        /\ well_count = 96 =>
             /\ [i \in 1..Len(plate.rows) |-> plate.rows[i].name]
                  = << <<65>>, <<66>>, <<67>>, <<68>>, <<69>>, <<70>>, <<71>>, <<72>> >>
             /\ [j \in 1..Len(plate.columns) |-> plate.columns[j].name]
                  = << <<49>>, <<50>>, <<51>>, <<52>>, <<53>>, <<54>>, <<55>>,
                       <<56>>, <<57>>, <<49, 48>>, <<49, 49>>, <<49, 50>> >>

C7_Witness ==
    /\ pl_pc = "done"
    /\ plate_type = None
    /\ well_count = 96
    /\ Len(plate.wells) = 96
    /\ plate.wells[96].path = <<72, 47, 49, 50>>

-----------------------------------------------------------------------------
(* Properties of convert_czi_to_hcs_zarr *)

\* the input path minus its last 4 characters plus "_ngff_plate.zarr"
ClaimedOutput == SubSeq(czi_filepath, 1, Len(czi_filepath) - 4) \o ZarrSuffix

\* how a path starts: 0 for a relative path, 2 for exactly two leading
\* slashes, 1 for any other number of them
LeadingSlashes(a) ==
    LET n == Cardinality({k \in 1..Len(a) : \A j \in 1..k : a[j] = 47})
    IN  IF n = 0 THEN 0 ELSE IF n = 2 THEN 2 ELSE 1

\* a and b name the same file system location
SamePath(a, b) ==
    /\ SelectSeq(SplitOn(a, 47), IsPathPart) = SelectSeq(SplitOn(b, 47), IsPathPart)
    /\ LeadingSlashes(a) = LeadingSlashes(b)

\* the entry of the file system f that path names
EntryAt(f, path) == {q \in DOMAIN f : SamePath(q, path)}

WriteOps == {"plate", "well", "image"}

\* C10: with overwrite=False and the output path existing the call returns
\* that path without reading the CZI file and without touching the file
\* system; with overwrite=True an existing tree is removed before any
\* metadata or image is written; every completed call returns the output
\* path.
C10_OverwriteOrSkip ==
    cv_pc # "idle" =>
        /\ (~overwrite /\ EntryAt(fs0, ClaimedOutput) # {}) =>
             /\ cv_pc \in {"start", "done"}
             /\ fs = fs0
             /\ events = <<>>
             /\ mdata = <<>>
        /\ (overwrite /\ \E q \in EntryAt(fs0, ClaimedOutput) : fs0[q].kind = "dir") =>
             /\ \A k \in 1..Len(events) :
                  events[k].op \in WriteOps =>
                      \E j \in 1..(k - 1) : events[j].op = "rmtree"
             /\ cv_pc # "start" =>
                  /\ events # <<>> /\ events[1].op = "rmtree"
                  /\ \A q \in EntryAt(fs, ClaimedOutput) : ~fs[q].tree.legacy
        /\ fs[OtherStore] = fs0[OtherStore]
        /\ cv_pc = "done" => SamePath(ret, ClaimedOutput) /\ exc = None

\* "./p.czi" with the store p_ngff_plate.zarr present and overwrite=False
C10_Witness ==
    /\ cv_pc = "done"
    /\ czi_filepath = <<46, 47, 112, 46, 99, 122, 105>>
    /\ ~overwrite
    /\ <<112, 95, 110, 103, 102, 102, 95, 112, 108, 97, 116, 101, 46, 122, 97, 114, 114>> \in DOMAIN fs0
    /\ fs0[<<112, 95, 110, 103, 102, 102, 95, 112, 108, 97, 116, 101, 46, 122, 97, 114, 114>>].kind = "dir"
    /\ ret = <<112, 95, 110, 103, 102, 102, 95, 112, 108, 97, 116, 101, 46, 122, 97, 114, 114>>
    /\ fs = fs0

\* an existing store was removed and the conversion ran to its return
C10_OverwriteReached ==
    /\ cv_pc = "done"
    /\ overwrite
    /\ zarr_output_path \in DOMAIN fs0
    /\ Len(events) > 3
    /\ events[1].op = "rmtree"

-----------------------------------------------------------------------------
(* Properties of write_omezarr and get_display *)

\* a call of one of the two functions named write_omezarr
InWriteOmeZarr == wo_fn \in {"write_omezarr_adv", "write_omezarr_ngff"}

\* the target path named something when the call started
TargetExisted == Exists(wo_fs0, PathStr(zarr_path))

\* nothing was deleted and nothing was written
TargetUntouched == wo_fs = wo_fs0 /\ wo_events = <<>>

\* the cases in which the claim says the call gives up
Refused == array5d.ndim > 5 \/ (TargetExisted /\ ~wo_overwrite)

\* C11: write_omezarr returns None and leaves the target path untouched
\* whenever the array has more than 5 dimensions (even with overwrite=True and
\* the path existing) or the path exists and overwrite=False; it deletes an
\* existing target only when the array has at most 5 dimensions and
\* overwrite=True; only in that case or when the target does not exist does
\* it write, and only then does it return zarr_path.
C11_RefuseOrWrite ==
    InWriteOmeZarr =>
        /\ Refused => TargetUntouched
        /\ (Refused /\ wo_pc # "start") => (wo_pc = "done" /\ wo_ret = ReturnNone)
        /\ (\E k \in 1..Len(wo_events) : wo_events[k] = "rmtree") =>
             (array5d.ndim <= 5 /\ wo_overwrite /\ TargetExisted)
        /\ (~Refused /\ wo_pc # "start" /\ TargetExisted
              /\ wo_fs0[PathStr(zarr_path)].kind = "dir") =>
             (wo_events # <<>> /\ wo_events[1] = "rmtree")
        /\ (~TargetUntouched \/ (wo_ret.returned /\ ~wo_ret.none)) =>
             (array5d.ndim <= 5 /\ (wo_overwrite \/ ~TargetExisted))
        /\ (wo_ret.returned /\ ~wo_ret.none) =>
             /\ wo_ret.path = zarr_path
             /\ wo_fs[PathStr(zarr_path)].tree.image
             /\ ~wo_fs[PathStr(zarr_path)].tree.legacy
        /\ wo_fs[OtherStore] = wo_fs0[OtherStore]

\* the part of C11 that the lines cited from xarray_issue_ngff.py carry:
\* write_omezarr_ngff gives up, returning None with nothing deleted or
\* written, when the target exists and overwrite=False, and deletes an
\* existing target only with overwrite=True. It has no dimension check and
\* returns the image it built, not the path.
OverwriteOrSkipNgff ==
    wo_fn = "xarray_issue_ngff" =>
        /\ (TargetExisted /\ ~wo_overwrite) => TargetUntouched
        /\ (TargetExisted /\ ~wo_overwrite /\ wo_pc # "start") =>
             (wo_pc = "done" /\ wo_ret = ReturnNone)
        /\ (\E k \in 1..Len(wo_events) : wo_events[k] = "rmtree") =>
             (wo_overwrite /\ TargetExisted)
        /\ ~TargetUntouched => (wo_overwrite \/ ~TargetExisted)
        /\ wo_ret.path = <<>>

\* a 6-dimensional array, overwrite=True and the store present: None is
\* returned and the store is still there
C11_Witness ==
    /\ InWriteOmeZarr
    /\ wo_pc = "done"
    /\ array5d.ndim = 6
    /\ wo_overwrite
    /\ TargetExisted
    /\ wo_fs0[PathStr(zarr_path)].kind = "dir"
    /\ wo_ret = ReturnNone
    /\ wo_fs = wo_fs0

\* k is n / d rounded to the nearest integer, a tie going to the even one
IsRounded(k, n, d) ==
    LET diff == IF k * d >= n THEN k * d - n ELSE n - k * d
    IN  /\ 2 * diff <= d
        /\ 2 * diff = d => k % 2 = 0

\* the try block of get_display finds both entries of the channel
LookupsSucceed ==
    channel_index < Len(metadata.clims) /\ channel_index < Len(metadata.maxvalue_list)

\* C12: when the channel index is out of range of clims or maxvalue_list,
\* get_display does not raise but returns lower = 0 and higher = maxvalue =
\* the channel's maximum value; when the lookups succeed it returns
\* (round(clim_low * max), round(clim_high * max), max) for that channel.
C12_FallbackNeverRaises ==
    (wo_fn = "get_display" /\ wo_pc \in {"done", "raised"}) =>
        IF LookupsSucceed
        THEN /\ wo_pc = "done"
             /\ IsRounded(display[1],
                          metadata.clims[channel_index + 1][1].num
                              * metadata.maxvalue_list[channel_index + 1],
                          metadata.clims[channel_index + 1][1].den)
             /\ IsRounded(display[2],
                          metadata.clims[channel_index + 1][2].num
                              * metadata.maxvalue_list[channel_index + 1],
                          metadata.clims[channel_index + 1][2].den)
             /\ display[3] = metadata.maxvalue_list[channel_index + 1]
        ELSE /\ wo_pc = "done"
             /\ display[1] = 0
             /\ display[2] = display[3]
             /\ display[3] \in MaxValues

-----------------------------------------------------------------------------
(* Properties of the writing order of convert_czi_to_hcs_zarr *)

IsWriteEvent(e) == e.op \in WriteOps

\* the writes of the call so far, in the order they happened
Writes == SelectSeq(events, IsWriteEvent)

\* the number of well metadata writes among the first p writes
WellsUpTo(p) == Cardinality({k \in 1..p : Writes[k].op = "well"})

\* the position of the last well metadata write among the first p writes
LastWellUpTo(p) ==
    LET ks == {k \in 1..p : Writes[k].op = "well"}
    IN  IF ks = {} THEN 0 ELSE CHOOSE k \in ks : \A j \in ks : j <= k

\* C13: the plate metadata is written exactly once and before any well
\* metadata or image; the wells are processed one at a time in the order of
\* well_paths; a well's metadata is written exactly once and before its field
\* images; the field images of a well are written in ascending field index;
\* no image of a later well is written before all images of an earlier well.
C13_WriteOrder ==
    cv_pc # "idle" =>
        /\ \A p \in 1..Len(Writes) : (Writes[p].op = "plate") <=> (p = 1)
        /\ \A p \in 1..Len(Writes) :
             Writes[p].op = "well" =>
                 /\ WellsUpTo(p) <= Len(well_paths)
                 /\ Writes[p].group = well_paths[WellsUpTo(p)]
                 /\ \/ WellsUpTo(p) = 1
                    \/ p - 1 - LastWellUpTo(p - 1) = Len(field_paths)
        /\ \A p \in 1..Len(Writes) :
             Writes[p].op = "image" =>
                 LET w == WellsUpTo(p)
                     j == p - LastWellUpTo(p)
                 IN  /\ w >= 1
                     /\ j <= Len(field_paths)
                     /\ field_paths[j] = Str(j - 1)
                     /\ Writes[p].group = WellPath(well_paths[w], field_paths[j])
        /\ cv_pc = "done" /\ events # <<>> =>
             Len(Writes) = 1 + Len(well_paths) * (1 + Len(field_paths))

\* two wells were processed and the first of them has two fields
C13_Witness ==
    /\ Len(Writes) = 6
    /\ Writes[2].op = "well"
    /\ Writes[3].op = "image"
    /\ Writes[4].op = "image"
    /\ Writes[5].op = "well"
    /\ Writes[6].op = "image"

-----------------------------------------------------------------------------
(* Properties of the wells of a generated plate *)

\* well v comes before well w in row-major order
RowMajorBefore(v, w) ==
    \/ v.rowIndex < w.rowIndex
    \/ v.rowIndex = w.rowIndex /\ v.columnIndex < w.columnIndex

\* C14: in every plate define_plate or define_plate_by_well_count returns,
\* every well has 0 <= rowIndex < len(rows), 0 <= columnIndex < len(columns)
\* and path = rows[rowIndex].name + "/" + columns[columnIndex].name; the
\* wells are listed in row-major order, and every (row, column) combination
\* occurs (by the strict order, exactly once).
C14_IndexConsistency ==
    pl_pc = "done" =>
        /\ \A k \in 1..Len(plate.wells) :
             LET w == plate.wells[k]
             IN  /\ 0 <= w.rowIndex /\ w.rowIndex < Len(plate.rows)
                 /\ 0 <= w.columnIndex /\ w.columnIndex < Len(plate.columns)
                 /\ w.path = plate.rows[w.rowIndex + 1].name \o <<47>>
                               \o plate.columns[w.columnIndex + 1].name
        /\ \A k \in 1..(Len(plate.wells) - 1) :
             RowMajorBefore(plate.wells[k], plate.wells[k + 1])
        /\ \A r \in 0..(Len(plate.rows) - 1) : \A c \in 0..(Len(plate.columns) - 1) :
             \E k \in 1..Len(plate.wells) :
                 plate.wells[k].rowIndex = r /\ plate.wells[k].columnIndex = c

\* define_plate_by_well_count(96): well 13 is B/1, row 1 and column 0
C14_Witness ==
    /\ pl_pc = "done"
    /\ well_count = 96
    /\ Len(plate.wells) = 96
    /\ plate.wells[13] = [path |-> <<66, 47, 49>>, rowIndex |-> 1, columnIndex |-> 0]

-----------------------------------------------------------------------------
(* Properties of the scene lookups of convert_czi_to_hcs_zarr *)

\* line 60: well_path.replace("/", "")
WellId(wp) == SelectSeq(wp, NotSlash)

\* C15: for any set of acquired letter-then-digit well tokens, also a sparse
\* one, every well path the loop iterates gives a well id that is a key of
\* well_scene_indices, so the lookup of line 63 never fails with KeyError.
C15_LookupNeverFails ==
    /\ cv_pc \in {"plate", "well", "field", "done"} /\ Len(mdata) = 1 =>
         \A k \in 1..Len(well_paths) :
             WellId(well_paths[k]) \in DOMAIN mdata[1].well_scene_indices
    /\ cv_pc = "raised" => exc # "KeyError"

\* C16: the field list, derived once from the count of the first entry of
\* well_array_names, fits every well: at every lookup fi is a valid index
\* into the scene list of the well being written, and a run that returns has
\* written every scene of every acquired well exactly once.
C16_FieldsFitEveryWell ==
    /\ Len(mdata) = 1 /\ cv_pc \in {"plate", "well", "field", "done"} =>
         field_paths = [i \in 1..mdata[1].well_counter[mdata[1].well_array_names[1]]
                          |-> Str(i - 1)]
    /\ (/\ cv_pc = "field"
        /\ fi < Len(field_paths)
        /\ WellId(well_paths[wi]) \in DOMAIN mdata[1].well_scene_indices) =>
         fi < Len(mdata[1].well_scene_indices[WellId(well_paths[wi])])
    /\ cv_pc = "done" /\ Len(mdata) = 1 =>
         \A i \in 0..(Len(czi) - 1) :
             Cardinality({k \in 1..Len(events) :
                 events[k].op = "image" /\ events[k].scene = i}) = 1

-----------------------------------------------------------------------------
(* Properties relating the inventory keys and the well paths *)

\* C17: for a well_counter whose keys are all letters-then-digits, every key
\* is the well id (the path with "/" removed) of exactly one returned well
\* path, and distinct well paths have distinct well ids.
C17_KeysRoundTrip ==
    (ex_pc = "done" /\ \A key \in Keys : IsLettersThenDigits(key)) =>
        /\ \A key \in Keys :
             Cardinality({k \in 1..Len(well_paths) : WellId(well_paths[k]) = key}) = 1
        /\ \A k, l \in 1..Len(well_paths) :
             well_paths[k] # well_paths[l] =>
                 WellId(well_paths[k]) # WellId(well_paths[l])

\* the keys AB1, B10 and A2: nine paths, among them AB/1, B/10 and A/2
C17_Witness ==
    /\ ex_pc = "done"
    /\ Keys = { <<65, 66, 49>>, <<66, 49, 48>>, <<65, 50>> }
    /\ Len(well_paths) = 9
    /\ \E k \in 1..9 : well_paths[k] = <<66, 47, 49, 48>>

-----------------------------------------------------------------------------
(* Properties of the hand-built plate of write_hcs_ngffzarr.py *)

\* every well's rowIndex and columnIndex are 0-based positions in the rows
\* and columns lists of p, and the names there form the well's path
PlateIndexConsistent(p) ==
    \A k \in 1..Len(p.wells) :
        LET w == p.wells[k]
        IN  /\ 0 <= w.rowIndex /\ w.rowIndex < Len(p.rows)
            /\ 0 <= w.columnIndex /\ w.columnIndex < Len(p.columns)
            /\ w.path = p.rows[w.rowIndex + 1].name \o <<47>>
                          \o p.columns[w.columnIndex + 1].name

\* every well of B4..B10 was acquired
AllScriptWellsAcquired ==
    DOMAIN well_counter = {ScriptWells[i] : i \in 1..Len(ScriptWells)}

\* C18: the plate the script builds by hand is index-consistent, and its
\* rows, columns and wells are the ones extract_well_coordinates derives for
\* the wells B4..B10.
C18_HandBuiltPlateConsistent ==
    (sc_pc \in {"field", "done"} /\ AllScriptWellsAcquired) =>
        /\ PlateIndexConsistent(plate)
        /\ [i \in 1..Len(plate.rows) |-> plate.rows[i].name] = row_names
        /\ [j \in 1..Len(plate.columns) |-> plate.columns[j].name] = col_names
        /\ [k \in 1..Len(plate.wells) |-> plate.wells[k].path] = well_paths

=============================================================================
